---- MODULE Spec2Model ----
(***************************************************************************)
(* Model of the WhisperX transcription / diarization / summarization       *)
(* service: the formatting helpers, the meeting-type prompt selection, the *)
(* per-speaker aggregation of TranscribeSummaryPipeline.process, the LLM   *)
(* summarizer and the FastAPI endpoint POST /api/transcribe-summarize.     *)
(*                                                                         *)
(* Python strings are modelled as sequences of one-character strings, so   *)
(* that startswith / split / int / lower / splitext are computed and not   *)
(* assumed.  Thai text is transliterated: the token "KhonPhut" stands for  *)
(* the Thai word of format_speaker's f-string.  Durations are exact        *)
(* integers (time units), a Python dict is the sequence of its items in    *)
(* insertion order, speaker_summary is the dict with the keys              *)
(* "speaking_time" and "word_count".                                       *)
(***************************************************************************)
EXTENDS Integers, Sequences, FiniteSets, TLC

VARIABLES
    (* ---- pure-function harness ---- *)
    call,          \* the call under evaluation: [fn, arg]
    ret,           \* [done |-> FALSE], or [done |-> TRUE, v |-> its result]
    (* ---- TranscribeSummaryPipeline.process ---- *)
    pc,            \* position inside process()
    model,         \* self.model: "None" or "loaded"
    diarize_model, \* local diarize_model: "None" or "loaded"
    api_key,       \* module constant NTC_API_KEY read from the environment
    type_id,       \* meeting_type_id argument of process()
    result,        \* result['segments'] of whisperx (input order)
    segments,      \* sorted segments
    speakers_time, \* dict speaker -> summed duration
    speakers_words,\* dict speaker -> summed word count
    transcript_lines, \* list of [speaker, text] lines
    summary_text,  \* return value of summarize_with_diarization
    http_posts,    \* the payloads handed to requests.post, in order
    steps,         \* the steps process() has carried out so far, in order
    (* ---- POST /api/transcribe-summarize, GET /api/meeting-types ---- *)
    apc,           \* position inside the endpoint
    req,           \* the request: [meeting_type_id, filename]
    temp_dir,      \* "none", "exists" or "removed"
    written,       \* TRUE once upload bytes were written
    temp_file,     \* the file at temp_file: "none", "in_temp_dir",
                   \* "outside_temp_dir" or "removed"
    pipeline_runs, \* number of times pipeline.process() started its body
    response,      \* the HTTP answer: [status, ...] or NoResponse
    background,    \* the BackgroundTask of a FileResponse: "none", "pending", "ran"
    (* ---- command line: main() of main.py, __main__ of TM.py ---- *)
    cpc,           \* position inside main()
    audio_exists,  \* os.path.exists(audio_file)
    meeting_choice,      \* the last answer to the meeting-type prompt, stripped
    cli_meeting_type_id, \* local meeting_type_id of main(), None before int()
    prompts,       \* number of times the meeting-type prompt was shown
    (* ---- app/utils/export.py, module level ---- *)
    DOCX_AVAILABLE \* TRUE iff "from docx import Document" succeeded

fmtvars == <<call, ret>>
procvars == <<pc, model, diarize_model, api_key, type_id, result, segments,
              speakers_time, speakers_words, transcript_lines, summary_text,
              http_posts, steps>>
apivars == <<apc, req, temp_dir, written, temp_file, pipeline_runs, response,
             background>>
clivars == <<cpc, audio_exists, meeting_choice, cli_meeting_type_id, prompts>>
modvars == <<DOCX_AVAILABLE>>
vars == <<call, ret, pc, model, diarize_model, api_key, type_id, result,
          segments, speakers_time, speakers_words, transcript_lines,
          summary_text, http_posts, steps, apc, req, temp_dir, written, temp_file,
          pipeline_runs, response, background, cpc, audio_exists,
          meeting_choice, cli_meeting_type_id, prompts, DOCX_AVAILABLE>>

(***************************************************************************)
(* Python values and exceptions                                            *)
(***************************************************************************)
\* None and a raised exception are one-element sequences whose element is no
\* character, so that they differ from every string
None == <<"None">>
ValueError == <<"ValueError">>

(***************************************************************************)
(* Python built-ins used by the code                                       *)
(***************************************************************************)
Digits == <<"0", "1", "2", "3", "4", "5", "6", "7", "8", "9">>

IsDigit(c) == \E d \in 1..10 : Digits[d] = c

DigitVal(c) == (CHOOSE d \in 1..10 : Digits[d] = c) - 1

IsSpace(c) == c \in {" ", "\t", "\n"}

\* s.startswith(prefix)
StartsWith(s, prefix) ==
    /\ Len(s) >= Len(prefix)
    /\ SubSeq(s, 1, Len(prefix)) = prefix

\* position of the first occurrence of character c in s at or after i, 0 if none
RECURSIVE FindFrom(_, _, _)
FindFrom(s, c, i) ==
    IF i > Len(s) THEN 0
    ELSE IF s[i] = c THEN i
    ELSE FindFrom(s, c, i + 1)

\* s.split(sep): the list of the parts of s between occurrences of sep
RECURSIVE Split(_, _)
Split(s, sep) ==
    LET p == FindFrom(s, sep, 1) IN
    IF p = 0 THEN <<s>>
    ELSE <<SubSeq(s, 1, p - 1)>> \o Split(SubSeq(s, p + 1, Len(s)), sep)

\* value of a non-empty string of decimal digits
RECURSIVE DigitsValue(_)
DigitsValue(s) ==
    IF Len(s) = 0 THEN 0
    ELSE DigitsValue(SubSeq(s, 1, Len(s) - 1)) * 10 + DigitVal(s[Len(s)])

\* text.strip()
RECURSIVE LStrip(_)
LStrip(s) ==
    IF Len(s) > 0 /\ IsSpace(s[1]) THEN LStrip(Tail(s)) ELSE s

RECURSIVE RStrip(_)
RStrip(s) ==
    IF Len(s) > 0 /\ IsSpace(s[Len(s)]) THEN RStrip(SubSeq(s, 1, Len(s) - 1))
    ELSE s

Strip(s) == RStrip(LStrip(s))

\* s with its underscores removed
RECURSIVE DropUnderscores(_)
DropUnderscores(s) ==
    IF Len(s) = 0 THEN <<>>
    ELSE IF s[1] = "_" THEN DropUnderscores(Tail(s))
    ELSE <<s[1]>> \o DropUnderscores(Tail(s))

\* decimal digits, with single underscores allowed between two digits
DigitGroups(body) ==
    /\ Len(body) > 0
    /\ \A i \in 1..Len(body) :
          \/ IsDigit(body[i])
          \/ /\ body[i] = "_"
             /\ i > 1
             /\ i < Len(body)
             /\ IsDigit(body[i - 1])
             /\ IsDigit(body[i + 1])

\* int(s): surrounding whitespace, an optional sign, then decimal digits
\* (single underscores between digits allowed); raises ValueError otherwise
PyInt(s) ==
    LET t == Strip(s)
        signed == Len(t) > 0 /\ t[1] \in {"-", "+"}
        body == IF signed THEN SubSeq(t, 2, Len(t)) ELSE t
    IN  IF ~DigitGroups(body)
        THEN [raised |-> TRUE, v |-> 0]
        ELSE IF signed /\ t[1] = "-"
        THEN [raised |-> FALSE, v |-> 0 - DigitsValue(DropUnderscores(body))]
        ELSE [raised |-> FALSE, v |-> DigitsValue(DropUnderscores(body))]

\* str(n) for an integer n
RECURSIVE NatStr(_)
NatStr(n) ==
    IF n < 10 THEN <<Digits[n + 1]>>
    ELSE NatStr(n \div 10) \o <<Digits[(n % 10) + 1]>>

PyStr(n) == IF n < 0 THEN <<"-">> \o NatStr(0 - n) ELSE NatStr(n)

\* len(text.strip().split()): number of maximal runs of non-space characters
RECURSIVE WordCountFrom(_, _, _)
WordCountFrom(s, i, inword) ==
    IF i > Len(s) THEN 0
    ELSE IF IsSpace(s[i]) THEN WordCountFrom(s, i + 1, FALSE)
    ELSE (IF inword THEN 0 ELSE 1) + WordCountFrom(s, i + 1, TRUE)

WordCount(text) == WordCountFrom(text, 1, FALSE)

(***************************************************************************)
(* Python dict, kept as the sequence of its items in insertion order       *)
(***************************************************************************)
DictKeys(d) == {d[i].k : i \in 1..Len(d)}

DictHas(d, key) == \E i \in 1..Len(d) : d[i].k = key

\* d.get(key, default)
DictGet(d, key, default) ==
    IF DictHas(d, key)
    THEN d[CHOOSE i \in 1..Len(d) : d[i].k = key].v
    ELSE default

\* d[key] = value
DictSet(d, key, value) ==
    IF DictHas(d, key)
    THEN [i \in 1..Len(d) |-> IF d[i].k = key THEN [k |-> key, v |-> value]
                              ELSE d[i]]
    ELSE Append(d, [k |-> key, v |-> value])

\* speaker_summary = {'speaking_time': ..., 'word_count': ...}
SpeakerSummary(time, words) ==
    <<[k |-> "speaking_time", v |-> time], [k |-> "word_count", v |-> words]>>

\* sum(d.values())
RECURSIVE DictSum(_)
DictSum(d) == IF Len(d) = 0 THEN 0 ELSE d[1].v + DictSum(Tail(d))


(***************************************************************************)
(* app/utils/formatting.py                                                 *)
(***************************************************************************)
SPEAKER_PREFIX == <<"S", "P", "E", "A", "K", "E", "R", "_">>

UNKNOWN == <<"U", "n", "k", "n", "o", "w", "n">>

\* the literal text of the f-string of format_speaker before {num}
THAI_SPEAKER == <<"KhonPhut", " ">>

\* format_speaker(speaker): speaker is None or a string
format_speaker(speaker) ==
    IF speaker # None /\ Len(speaker) > 0 /\ StartsWith(speaker, SPEAKER_PREFIX)
    THEN LET n == PyInt(Split(speaker, "_")[2])
         IN  IF n.raised THEN ValueError
             ELSE THAI_SPEAKER \o PyStr(n.v + 1)
    ELSE IF speaker = None \/ Len(speaker) = 0 THEN UNKNOWN
    ELSE speaker

\* the float argument of format_time is an exact number of 1/Resolution seconds
Resolution == 1000

\* f"{n:02d}"
Pad2(n) == IF n >= 0 /\ n < 10 THEN <<"0">> \o PyStr(n) ELSE PyStr(n)

\* the three integers format_time computes: m, s, ms
format_time_fields_wrapping_minutes(seconds) ==
    [m  |-> (seconds \div (60 * Resolution)) % 60,
     s  |-> (seconds % (60 * Resolution)) \div Resolution,
     ms |-> ((seconds % Resolution) * 100) \div Resolution]

format_time_fields(seconds) ==
    [m  |-> seconds \div (60 * Resolution),
     s  |-> (seconds % (60 * Resolution)) \div Resolution,
     ms |-> ((seconds % Resolution) * 100) \div Resolution]

\* format_time(seconds) = f"{m:02d}:{s:02d}.{ms:02d}"
format_time(seconds) ==
    LET f == format_time_fields(seconds)
    IN  Pad2(f.m) \o <<":">> \o Pad2(f.s) \o <<".">> \o Pad2(f.ms)

(***************************************************************************)
(* sorted(): stable insertion sort of a sequence of [key, item] records by *)
(* ascending integer key                                                   *)
(***************************************************************************)
\* insert x after every element whose key is <= x.key
RECURSIVE InsertSorted(_, _)
InsertSorted(s, x) ==
    IF Len(s) = 0 THEN <<x>>
    ELSE IF s[Len(s)].key <= x.key THEN Append(s, x)
    ELSE Append(InsertSorted(SubSeq(s, 1, Len(s) - 1), x), s[Len(s)])

RECURSIVE StableSort(_)
StableSort(s) ==
    IF Len(s) = 0 THEN <<>>
    ELSE InsertSorted(StableSort(SubSeq(s, 1, Len(s) - 1)), s[Len(s)])

SortedByValueDesc_reversing_ascending(d) ==
    LET keyed == [i \in 1..Len(d) |-> [key |-> d[i].v, item |-> d[i]]]
        srt == StableSort(keyed)
    IN  [i \in 1..Len(d) |-> srt[Len(d) + 1 - i].item]

\* sorted(d.items(), key=lambda x: -x[1])
SortedByValueDesc(d) ==
    LET keyed == [i \in 1..Len(d) |-> [key |-> 0 - d[i].v, item |-> d[i]]]
        srt == StableSort(keyed)
    IN  [i \in 1..Len(d) |-> srt[i].item]

(***************************************************************************)
(* MEETING_TYPES (SummaryModel.py; app/models/meeting.py carries the same  *)
(* ids).  Thai strings are given by an English gloss.                      *)
(***************************************************************************)
MT(name, thai, structure) == [name |-> name, thai |-> thai, structure |-> structure]

MEETING_TYPES == <<
    [k |-> 0, v |-> MT("Auto-Detect", "truatchap attanomat", "analyse from content")],
    [k |-> 1, v |-> MT("Shareholder Meeting", "prachum phu thue hun",
                       "agenda > resolution > dividend > conclusion")],
    [k |-> 2, v |-> MT("Board Meeting", "prachum khana kammakan",
                       "policy > approval > board resolution")],
    [k |-> 3, v |-> MT("Planning Meeting", "prachum wang phaen",
                       "goal > plan > timeline > owner > risk")],
    [k |-> 4, v |-> MT("Progress Update", "raingan khwam khuep na",
                       "status > progress > problem > fix > next work")],
    [k |-> 5, v |-> MT("Strategy Meeting", "prachum choeng konlayut",
                       "direction > analysis > strategy > Action Plan")],
    [k |-> 6, v |-> MT("Incident Review", "prachum kaekhai panha",
                       "problem > cause > impact > fix > prevention")],
    [k |-> 7, v |-> MT("Client Meeting", "prachum lukkha",
                       "proposal > Feedback > agreement > Next Steps")],
    [k |-> 8, v |-> MT("Workshop", "choeng patibatkan",
                       "topic > key content > lesson > Action Items")],
    [k |-> 9, v |-> MT("Executive Meeting", "prachum phu borihan",
                       "key issue > decision > resolution > owner")],
    [k |-> 10, v |-> MT("Team Meeting", "prachum thim ngan",
                        "update > assignment > problem > to do")],
    [k |-> 11, v |-> MT("General Meeting", "prachum thuapai",
                        "agenda > discussion > suggestion > resolution")] >>

\* the items of a dict that satisfy num > 0, in dict order
RECURSIVE ItemsAbove(_, _)
ItemsAbove_inclusive(d, low) ==
    IF Len(d) = 0 THEN <<>>
    ELSE (IF d[1].k >= low THEN <<d[1]>> ELSE <<>>) \o ItemsAbove(Tail(d), low)

ItemsAbove(d, low) ==
    IF Len(d) = 0 THEN <<>>
    ELSE (IF d[1].k > low THEN <<d[1]>> ELSE <<>>) \o ItemsAbove(Tail(d), low)

\* the rows of types_table: one "| name | structure |" per entry with num > 0
types_table ==
    LET rows == ItemsAbove(MEETING_TYPES, 0)
    IN  [i \in 1..Len(rows) |-> [name |-> rows[i].v.name,
                                 structure |-> rows[i].v.structure]]

\* get_meeting_focus_prompt of app/models/meeting.py: the text it returns for
\* an id is kept opaque
get_meeting_focus_prompt(meeting_type_id) == <<"focus", meeting_type_id>>

Prompt(kind, table, info, focus) ==
    [kind |-> kind, table |-> table, thai |-> info.thai, name |-> info.name,
     structure |-> info.structure, focus |-> focus]

NoInfo == MT("", "", "")

\* SummaryModel.get_meeting_type_prompt
SummaryModel_get_meeting_type_prompt(meeting_type_id) ==
    IF meeting_type_id = 0
    THEN Prompt("auto", types_table, NoInfo, <<>>)
    ELSE LET info == DictGet(MEETING_TYPES, meeting_type_id,
                             DictGet(MEETING_TYPES, 11, NoInfo))
         IN  Prompt("specific", <<>>, info, <<>>)

\* app.services.summarizer.get_meeting_type_prompt
get_meeting_type_prompt_default_auto(meeting_type_id) ==
    IF meeting_type_id = 0
    THEN Prompt("auto", types_table, NoInfo, <<>>)
    ELSE LET info == DictGet(MEETING_TYPES, meeting_type_id,
                             DictGet(MEETING_TYPES, 0, NoInfo))
         IN  Prompt("specific", <<>>, info,
                    get_meeting_focus_prompt(meeting_type_id))

get_meeting_type_prompt(meeting_type_id) ==
    IF meeting_type_id = 0
    THEN Prompt("auto", types_table, NoInfo, <<>>)
    ELSE LET info == DictGet(MEETING_TYPES, meeting_type_id,
                             DictGet(MEETING_TYPES, 11, NoInfo))
         IN  Prompt("specific", <<>>, info,
                    get_meeting_focus_prompt(meeting_type_id))

(***************************************************************************)
(* Per-speaker percentage (summarizer.py, pipeline.print_results,          *)
(* export.export_summary_to_docx).  A float quotient a / b * 100 is kept   *)
(* exactly as the pair num / den; a / 0 raises ZeroDivisionError.          *)
(***************************************************************************)
Ratio(raised, num, den) == [raised |-> raised, num |-> num, den |-> den]

\* time_sec / total_time * 100
TrueDivTimes100(time_sec, total_time) ==
    IF total_time = 0 THEN Ratio(TRUE, 0, 1)
    ELSE Ratio(FALSE, time_sec * 100, total_time)

\* (time_sec / total_time * 100) if total_time > 0 else 0
Pct_unguarded(time_sec, total_time) == TrueDivTimes100(time_sec, total_time)

Pct(time_sec, total_time) ==
    IF total_time > 0 THEN TrueDivTimes100(time_sec, total_time)
    ELSE Ratio(FALSE, 0, 1)

\* sum(speakers_time.values()) if speakers_time else 1
TotalOrOne(st) ==
    IF Len(st) > 0 THEN DictSum(st) ELSE 1

\* summarize_with_diarization: the speaker_info_lines, one per speaker, by
\* non-increasing speaking time
speaker_info_lines(speaker_summary) ==
    LET st == DictGet(speaker_summary, "speaking_time", <<>>)
        sw == DictGet(speaker_summary, "word_count", <<>>)
        total_time == TotalOrOne(st)
        srt == SortedByValueDesc(st)
    IN  [i \in 1..Len(srt) |->
            [speaker |-> srt[i].k,
             mins |-> srt[i].v \div 60,
             secs |-> srt[i].v % 60,
             pct |-> Pct(srt[i].v, total_time),
             words |-> DictGet(sw, srt[i].k, 0)]]

\* order of characters (code points) for comparing strings
Alphabet == <<" ", "0", "1", "2", "3", "4", "5", "6", "7", "8", "9",
              "A", "B", "C", "U", "_", "b", "k", "n", "o", "w", "KhonPhut">>

Ord(c) == CHOOSE i \in 1..Len(Alphabet) : Alphabet[i] = c

\* a < b for strings
RECURSIVE StrLess(_, _)
StrLess(a, b) ==
    IF Len(b) = 0 THEN FALSE
    ELSE IF Len(a) = 0 THEN TRUE
    ELSE IF a[1] # b[1] THEN Ord(a[1]) < Ord(b[1])
    ELSE StrLess(Tail(a), Tail(b))

\* sorted(d.items()): keys are unique, so the items are ordered by key
SortedByKey(d) ==
    LET rank(i) == Cardinality({j \in 1..Len(d) : StrLess(d[j].k, d[i].k)}) + 1
    IN  [r \in 1..Len(d) |-> d[CHOOSE i \in 1..Len(d) : rank(i) = r]]

\* print_results: the lines of the SPEAKER SUMMARY block
print_results_speaker_lines(speaker_summary) ==
    LET st == DictGet(speaker_summary, "speaking_time", <<>>)
        sw == DictGet(speaker_summary, "word_count", <<>>)
        total_time == DictSum(st)
        srt == SortedByKey(st)
    IN  [i \in 1..Len(srt) |->
            [speaker |-> srt[i].k,
             time |-> srt[i].v,
             pct |-> Pct(srt[i].v, total_time),
             words |-> DictGet(sw, srt[i].k, 0)]]

\* an Optional[dict] argument: None, or a dict
NoneDict == [is_none |-> TRUE, value |-> <<>>]

SomeDict(d) == [is_none |-> FALSE, value |-> d]

\* bool(x) of an Optional[dict]
Truthy(opt) == ~opt.is_none /\ Len(opt.value) > 0

\* export_summary_to_docx: the percentages of the participant header section
export_summary_pcts(speaker_summary) ==
    IF ~Truthy(speaker_summary) THEN <<>>
    ELSE LET st == DictGet(speaker_summary.value, "speaking_time", <<>>)
             total_time == TotalOrOne(st)
             srt == SortedByValueDesc(st)
         IN  IF Len(st) = 0 THEN <<>>
             ELSE [i \in 1..Len(srt) |->
                     [speaker |-> srt[i].k, pct |-> Pct(srt[i].v, total_time)]]

(***************************************************************************)
(* Bounds of the inputs                                                    *)
(***************************************************************************)
MaxSuffixLen == 2      \* characters after "SPEAKER_" in a label
MaxMinutes == 61       \* whole minutes of a format_time argument
MaxIdOffset == 2       \* meeting ids range over -MaxIdOffset .. 11 + MaxIdOffset
MaxSpeakers == 2       \* entries of a speaker_summary given to the percentage code
MaxTime == 2           \* speaking times range over -MaxTime .. MaxTime

SeqsUpTo(S, n) == UNION {[1..k -> S] : k \in 0..n}

SuffixChars == {"0", "1", "9", "x", "_"}

\* the labels given to format_speaker
SpeakerLabels ==
    {None, <<>>, <<"B", "o", "b">>, <<"S", "P", "E", "A", "K", "E", "R">>,
     <<"A", "_", "1">>}
    \cup {SPEAKER_PREFIX \o suf : suf \in SeqsUpTo(SuffixChars, MaxSuffixLen)}

\* the arguments given to format_time, in 1/Resolution seconds
TimeArgs ==
    {m * 60 * Resolution + sec * Resolution + frac :
        m \in 0..MaxMinutes, sec \in {0, 1, 30, 59}, frac \in {0, 9, 10, 995, 999}}

MeetingIds == (0 - MaxIdOffset)..(11 + MaxIdOffset)

SummarySpeakers == {<<"A">>, <<"B">>, <<"C">>}

\* the dicts speaker -> time with at most MaxSpeakers entries
TimeDicts ==
    {d \in SeqsUpTo([k : SummarySpeakers, v : (0 - MaxTime)..MaxTime], MaxSpeakers) :
        \A i, j \in 1..Len(d) : i # j => d[i].k # d[j].k}

AllWords(d, n) == [i \in 1..Len(d) |-> [k |-> d[i].k, v |-> n]]

\* the speaker_summary dicts given to the percentage code
Summaries ==
    {SpeakerSummary(d, <<>>) : d \in TimeDicts}
    \cup {SpeakerSummary(d, AllWords(d, 2)) : d \in TimeDicts}

OptionalSummaries == {NoneDict, SomeDict(<<>>)} \cup {SomeDict(d) : d \in Summaries}

(***************************************************************************)
(* app/services/summarizer.py: summarize_with_diarization                  *)
(***************************************************************************)
NO_KEY_ERROR == <<"Error: NTC_API_KEY not found in environment variables">>

\* the holes of the two f-string messages of the payload
Payload(transcript, speaker_summary, meeting_type_id) ==
    LET st == DictGet(speaker_summary, "speaking_time", <<>>)
        meeting_type_info == DictGet(MEETING_TYPES, meeting_type_id,
                                     DictGet(MEETING_TYPES, 0, NoInfo))
    IN  [instruction |-> get_meeting_type_prompt(meeting_type_id),
         out_type |-> IF meeting_type_id > 0 THEN meeting_type_info.thai
                      ELSE "praphet",
         num_speakers |-> Len(st),
         out_structure |-> meeting_type_info.structure,
         speaker_info |-> speaker_info_lines(speaker_summary),
         transcript |-> transcript]

\* a JSON value as response.json() returns it: None, a str, a list, a dict
\* (the sequence of its [k, v] items)
JNull == [t |-> "null", items |-> <<>>, s |-> <<>>]

JStr(s) == [t |-> "str", items |-> <<>>, s |-> s]

JList(items) == [t |-> "list", items |-> items, s |-> <<>>]

JDict(items) == [t |-> "dict", items |-> items, s |-> <<>>]

Subscripted(exc, v) == [exc |-> exc, v |-> v]

\* j[k] for a str k
GetKey(j, k) ==
    IF j.t = "dict"
    THEN IF DictHas(j.items, k) THEN Subscripted("none", DictGet(j.items, k, JNull))
         ELSE Subscripted("KeyError", JNull)
    ELSE Subscripted("TypeError", JNull)

\* j[i] for an int i >= 0
GetIndex(j, i) ==
    IF j.t = "dict" THEN Subscripted("KeyError", JNull)
    ELSE IF j.t = "list"
    THEN IF i < Len(j.items) THEN Subscripted("none", j.items[i + 1])
         ELSE Subscripted("IndexError", JNull)
    ELSE IF j.t = "str"
    THEN IF i < Len(j.s) THEN Subscripted("none", JStr(<<j.s[i + 1]>>))
         ELSE Subscripted("IndexError", JNull)
    ELSE Subscripted("TypeError", JNull)

\* result["choices"][0]["message"]["content"]
ContentOf(result_json) ==
    LET choices == GetKey(result_json, "choices")
        first == IF choices.exc = "none" THEN GetIndex(choices.v, 0) ELSE choices
        message == IF first.exc = "none" THEN GetKey(first.v, "message") ELSE first
    IN  IF message.exc = "none" THEN GetKey(message.v, "content") ELSE message

\* the value a JSON value is as a Python return value
PyValue(j) ==
    IF j.t = "str" THEN j.s
    ELSE IF j.t = "null" THEN None
    ELSE <<"non-str", j.t>>

Message(content) == JDict(<<[k |-> "content", v |-> content]>>)

Choice(message) == JDict(<<[k |-> "message", v |-> message]>>)

Completion(choices) == JDict(<<[k |-> "choices", v |-> choices]>>)

\* the JSON bodies of the answers of the gateway
ResponseBodies ==
    {Completion(JList(<<Choice(Message(JStr(<<"content">>)))>>)),
     Completion(JList(<<Choice(Message(JNull))>>)),
     Completion(JList(<<Choice(JDict(<<>>))>>)),
     Completion(JList(<<Choice(JNull)>>)),
     Completion(JList(<<Choice(JStr(<<"m">>))>>)),
     Completion(JList(<<JDict(<<>>)>>)),
     Completion(JList(<<JNull>>)),
     Completion(JList(<<>>)),
     Completion(JNull),
     Completion(JStr(<<"c">>)),
     Completion(JDict(<<>>)),
     JDict(<<[k |-> "error", v |-> JStr(<<"e">>)]>>),
     JDict(<<>>),
     JList(<<>>),
     JStr(<<"s">>),
     JNull}

\* what requests.post / raise_for_status / response.json() end in: a
\* RequestException, or the JSON body of a 2xx answer
Answer(transport, body) == [transport |-> transport, body |-> body]

LLMOutcomes ==
    {Answer("RequestException", JNull)} \cup {Answer("ok", b) : b \in ResponseBodies}

\* the try block and its two except clauses; an exception that neither
\* clause names leaves the function
TryPost(outcome) ==
    LET content == ContentOf(outcome.body) IN
    IF outcome.transport = "RequestException"
    THEN [ret |-> <<"Error calling NTC API: ", "RequestException">>, raised |-> "none"]
    ELSE IF content.exc \in {"KeyError", "IndexError"}
    THEN [ret |-> <<"Error parsing response: ", content.exc>>, raised |-> "none"]
    ELSE IF content.exc # "none"
    THEN [ret |-> <<>>, raised |-> content.exc]
    ELSE [ret |-> PyValue(content.v), raised |-> "none"]

\* the returned string and the list of payloads posted; key is NTC_API_KEY
\* (None when the variable is unset), outcome is the answer of the gateway
summarize_posting_without_key(transcript, speaker_summary, meeting_type_id, key, outcome) ==
    [ret |-> IF key = None \/ Len(key) = 0 THEN NO_KEY_ERROR ELSE TryPost(outcome).ret,
     raised |-> IF key = None \/ Len(key) = 0 THEN "none" ELSE TryPost(outcome).raised,
     posts |-> <<Payload(transcript, speaker_summary, meeting_type_id)>>]

summarize_with_diarization(transcript, speaker_summary, meeting_type_id, key, outcome) ==
    IF key = None \/ Len(key) = 0
    THEN [ret |-> NO_KEY_ERROR, raised |-> "none", posts |-> <<>>]
    ELSE [ret |-> TryPost(outcome).ret,
          raised |-> TryPost(outcome).raised,
          posts |-> <<Payload(transcript, speaker_summary, meeting_type_id)>>]

(***************************************************************************)
(* app/services/pipeline.py: TranscribeSummaryPipeline.process             *)
(***************************************************************************)
MaxSegs == 2           \* segments of a transcription

Starts == {0, 1}

Durations == {1, 2}

Texts == {<<" ", "a", " ">>, <<"a", " ", " ", "b">>}

\* the labels of the diarization model, None for a segment without speaker
DiarLabels == {None, SPEAKER_PREFIX \o <<"0", "0">>, SPEAKER_PREFIX \o <<"0", "1">>}

\* NTC_API_KEY and meeting_type_id of the modelled runs
ProcessApiKeys == {None, <<"k">>}

ProcessTypeIds == {0}

\* the answers of the gateway in the modelled runs: a transport failure, a
\* completion, an empty list of choices, a body without choices, a null body
ProcessOutcomes ==
    {Answer("RequestException", JNull),
     Answer("ok", Completion(JList(<<Choice(Message(JStr(<<"content">>)))>>))),
     Answer("ok", Completion(JList(<<>>))),
     Answer("ok", JDict(<<>>)),
     Answer("ok", JNull)}

Segment(start, end, text, speaker) ==
    [start |-> start, end |-> end, text |-> text, speaker |-> speaker]

\* result['segments'] after model.transcribe: no segment has a speaker yet
Transcriptions ==
    SeqsUpTo({Segment(b, b + d, t, None) : b \in Starts, d \in Durations, t \in Texts},
             MaxSegs)

SortedByStart_by_end(segs) ==
    LET keyed == [i \in 1..Len(segs) |-> [key |-> segs[i].end, item |-> segs[i]]]
        srt == StableSort(keyed)
    IN  [i \in 1..Len(segs) |-> srt[i].item]

\* sorted(result.get('segments', []), key=lambda x: x['start'])
SortedByStart(segs) ==
    LET keyed == [i \in 1..Len(segs) |-> [key |-> segs[i].start, item |-> segs[i]]]
        srt == StableSort(keyed)
    IN  [i \in 1..Len(segs) |-> srt[i].item]

\* one iteration of the loop over the segments
AggregateStep_overwriting(acc, segment) ==
    LET speaker == format_speaker(segment.speaker)
        duration == segment.end - segment.start
        text == Strip(segment.text)
        word_count == WordCount(text)
    IN  [time |-> DictSet(acc.time, speaker, duration),
         words |-> DictSet(acc.words, speaker,
                           DictGet(acc.words, speaker, 0) + word_count),
         lines |-> Append(acc.lines, [speaker |-> speaker, text |-> text])]

AggregateStep_keying_words_by_raw_label(acc, segment) ==
    LET speaker == format_speaker(segment.speaker)
        duration == segment.end - segment.start
        text == Strip(segment.text)
        word_count == WordCount(text)
    IN  [time |-> DictSet(acc.time, speaker,
                          DictGet(acc.time, speaker, 0) + duration),
         words |-> DictSet(acc.words, segment.speaker,
                           DictGet(acc.words, segment.speaker, 0) + word_count),
         lines |-> Append(acc.lines, [speaker |-> speaker, text |-> text])]

AggregateStep(acc, segment) ==
    LET speaker == format_speaker(segment.speaker)
        duration == segment.end - segment.start
        text == Strip(segment.text)
        word_count == WordCount(text)
    IN  [time |-> DictSet(acc.time, speaker,
                          DictGet(acc.time, speaker, 0) + duration),
         words |-> DictSet(acc.words, speaker,
                           DictGet(acc.words, speaker, 0) + word_count),
         lines |-> Append(acc.lines, [speaker |-> speaker, text |-> text])]

\* the whole loop: speakers_time, speakers_words, transcript_lines
RECURSIVE AggregateLoop(_)
AggregateLoop(segs) ==
    IF Len(segs) = 0 THEN [time |-> <<>>, words |-> <<>>, lines |-> <<>>]
    ELSE AggregateStep(AggregateLoop(SubSeq(segs, 1, Len(segs) - 1)), segs[Len(segs)])

(***************************************************************************)
(* TM.py: the aggregation of the legacy pipeline, with TM.py's own         *)
(* format_speaker                                                          *)
(***************************************************************************)
\* TM.format_speaker
TM_format_speaker(speaker) ==
    IF speaker # None /\ Len(speaker) > 0 /\ StartsWith(speaker, SPEAKER_PREFIX)
    THEN LET n == PyInt(Split(speaker, "_")[2])
         IN  IF n.raised THEN ValueError
             ELSE THAI_SPEAKER \o PyStr(n.v + 1)
    ELSE IF speaker = None \/ Len(speaker) = 0 THEN UNKNOWN
    ELSE speaker

TM_AggregateStep_without_strip(acc, segment) ==
    LET speaker == TM_format_speaker(segment.speaker)
        duration == segment.end - segment.start
        text == segment.text
        word_count == WordCount(text)
    IN  [time |-> DictSet(acc.time, speaker,
                          DictGet(acc.time, speaker, 0) + duration),
         words |-> DictSet(acc.words, speaker,
                           DictGet(acc.words, speaker, 0) + word_count),
         lines |-> Append(acc.lines, [speaker |-> speaker, text |-> text])]

\* one iteration of TM.py's loop over the segments
TM_AggregateStep(acc, segment) ==
    LET speaker == TM_format_speaker(segment.speaker)
        duration == segment.end - segment.start
        text == Strip(segment.text)
        word_count == WordCount(text)
    IN  [time |-> DictSet(acc.time, speaker,
                          DictGet(acc.time, speaker, 0) + duration),
         words |-> DictSet(acc.words, speaker,
                           DictGet(acc.words, speaker, 0) + word_count),
         lines |-> Append(acc.lines, [speaker |-> speaker, text |-> text])]

RECURSIVE TM_AggregateLoop(_)
TM_AggregateLoop(segs) ==
    IF Len(segs) = 0 THEN [time |-> <<>>, words |-> <<>>, lines |-> <<>>]
    ELSE TM_AggregateStep(TM_AggregateLoop(SubSeq(segs, 1, Len(segs) - 1)),
                          segs[Len(segs)])

\* TM.py: segments, speaker_summary and transcript lines of a diarized result
TM_aggregation(diarized) ==
    LET srt == SortedByStart(diarized)
        acc == TM_AggregateLoop(srt)
    IN  [segments |-> srt,
         speaking_time |-> acc.time,
         word_count |-> acc.words,
         transcript_lines |-> acc.lines]

InitProcess ==
    /\ pc = "load_model"
    /\ model = "None"
    /\ diarize_model = "None"
    /\ api_key \in ProcessApiKeys
    /\ type_id \in ProcessTypeIds
    /\ result = <<>>
    /\ segments = <<>>
    /\ speakers_time = <<>>
    /\ speakers_words = <<>>
    /\ transcript_lines = <<>>
    /\ summary_text = <<>>
    /\ http_posts = <<>>
    /\ steps = <<>>

\* Step 1: self._load_model()
LoadModel ==
    /\ pc = "load_model"
    /\ model' = "loaded"
    /\ pc' = "load_audio"
    /\ steps' = Append(steps, "load_model")
    /\ UNCHANGED <<diarize_model, api_key, type_id, result, segments, speakers_time,
                   speakers_words, transcript_lines, summary_text, http_posts>>
    /\ UNCHANGED <<apivars, fmtvars, clivars, modvars>>

\* Step 2: whisperx.load_audio
LoadAudio ==
    /\ pc = "load_audio"
    /\ pc' = "transcribe"
    /\ steps' = Append(steps, "load_audio")
    /\ UNCHANGED <<model, diarize_model, api_key, type_id, result, segments,
                   speakers_time, speakers_words, transcript_lines, summary_text,
                   http_posts>>
    /\ UNCHANGED <<apivars, fmtvars, clivars, modvars>>

\* Step 3: self.model.transcribe
Transcribe ==
    /\ pc = "transcribe"
    /\ model = "loaded"
    /\ result' \in Transcriptions
    /\ pc' = "release_model"
    /\ steps' = Append(steps, "transcribe")
    /\ UNCHANGED <<model, diarize_model, api_key, type_id, segments, speakers_time,
                   speakers_words, transcript_lines, summary_text, http_posts>>
    /\ UNCHANGED <<apivars, fmtvars, clivars, modvars>>

\* del self.model; self.model = None; clear_gpu_memory()
ReleaseModel_summarizing_first ==
    /\ pc = "release_model"
    /\ model' = "None"
    /\ pc' = "summarize"
    /\ steps' = Append(steps, "release_model")
    /\ UNCHANGED <<diarize_model, api_key, type_id, result, segments, speakers_time,
                   speakers_words, transcript_lines, summary_text, http_posts>>
    /\ UNCHANGED <<apivars, fmtvars, clivars, modvars>>

ReleaseModel_keeping_model ==
    /\ pc = "release_model"
    /\ model' = model
    /\ pc' = "load_diarization"
    /\ steps' = Append(steps, "release_model")
    /\ UNCHANGED <<diarize_model, api_key, type_id, result, segments, speakers_time,
                   speakers_words, transcript_lines, summary_text, http_posts>>
    /\ UNCHANGED <<apivars, fmtvars, clivars, modvars>>

ReleaseModel ==
    /\ pc = "release_model"
    /\ model' = "None"
    /\ pc' = "load_diarization"
    /\ steps' = Append(steps, "release_model")
    /\ UNCHANGED <<diarize_model, api_key, type_id, result, segments, speakers_time,
                   speakers_words, transcript_lines, summary_text, http_posts>>
    /\ UNCHANGED <<apivars, fmtvars, clivars, modvars>>

\* diarize_model = whisperx.diarize.DiarizationPipeline(...)
LoadDiarization ==
    /\ pc = "load_diarization"
    /\ diarize_model' = "loaded"
    /\ pc' = "diarize"
    /\ steps' = Append(steps, "load_diarization")
    /\ UNCHANGED <<model, api_key, type_id, result, segments, speakers_time,
                   speakers_words, transcript_lines, summary_text, http_posts>>
    /\ UNCHANGED <<apivars, fmtvars, clivars, modvars>>

\* diarize_segments = diarize_model(audio, ...)
Diarize ==
    /\ pc = "diarize"
    /\ diarize_model = "loaded"
    /\ pc' = "assign"
    /\ steps' = Append(steps, "diarize")
    /\ UNCHANGED <<model, diarize_model, api_key, type_id, result, segments,
                   speakers_time, speakers_words, transcript_lines, summary_text,
                   http_posts>>
    /\ UNCHANGED <<apivars, fmtvars, clivars, modvars>>

\* result = whisperx.assign_word_speakers(diarize_segments, result)
AssignSpeakers ==
    /\ pc = "assign"
    /\ \E labels \in [1..Len(result) -> DiarLabels] :
          result' = [i \in 1..Len(result) |->
                        [result[i] EXCEPT !.speaker = labels[i]]]
    /\ pc' = "release_diarization"
    /\ steps' = Append(steps, "assign_speakers")
    /\ UNCHANGED <<model, diarize_model, api_key, type_id, segments, speakers_time,
                   speakers_words, transcript_lines, summary_text, http_posts>>
    /\ UNCHANGED <<apivars, fmtvars, clivars, modvars>>

\* del diarize_model; clear_gpu_memory()
ReleaseDiarization ==
    /\ pc = "release_diarization"
    /\ diarize_model' = "None"
    /\ pc' = "aggregate"
    /\ steps' = Append(steps, "release_diarization")
    /\ UNCHANGED <<model, api_key, type_id, result, segments, speakers_time,
                   speakers_words, transcript_lines, summary_text, http_posts>>
    /\ UNCHANGED <<apivars, fmtvars, clivars, modvars>>

\* the sort and the loop that build speaker_summary and transcript_lines
Aggregate ==
    /\ pc = "aggregate"
    /\ LET srt == SortedByStart(result)
           acc == AggregateLoop(srt)
       IN  /\ segments' = srt
           /\ speakers_time' = acc.time
           /\ speakers_words' = acc.words
           /\ transcript_lines' = acc.lines
    /\ pc' = "summarize"
    /\ steps' = Append(steps, "aggregate")
    /\ UNCHANGED <<model, diarize_model, api_key, type_id, result, summary_text,
                   http_posts>>
    /\ UNCHANGED <<apivars, fmtvars, clivars, modvars>>

\* summary_text = summarize_with_diarization(...), then the output is built
Summarize ==
    /\ pc = "summarize"
    /\ \E outcome \in ProcessOutcomes :
          LET r == summarize_with_diarization(
                       transcript_lines, SpeakerSummary(speakers_time, speakers_words),
                       type_id, api_key, outcome)
          IN  /\ http_posts' = http_posts \o r.posts
              /\ IF r.raised = "none"
                 THEN summary_text' = r.ret /\ pc' = "done"
                 ELSE summary_text' = summary_text /\ pc' = "raised"
    /\ steps' = Append(steps, "summarize")
    /\ UNCHANGED <<model, diarize_model, api_key, type_id, result, segments,
                   speakers_time, speakers_words, transcript_lines>>
    /\ UNCHANGED <<apivars, fmtvars, clivars, modvars>>

\* the calls into whisperx ahead of the aggregation, each of which can raise
FailingSteps ==
    {"load_model", "load_audio", "transcribe", "load_diarization", "diarize",
     "assign"}

\* an exception of one of these calls leaves process(); nothing catches it
\* inside process(), so no later step runs
Raise ==
    /\ pc \in FailingSteps
    /\ pc' = "raised"
    /\ UNCHANGED <<model, diarize_model, api_key, type_id, result, segments,
                   speakers_time, speakers_words, transcript_lines, summary_text,
                   http_posts, steps>>
    /\ UNCHANGED <<apivars, fmtvars, clivars, modvars>>

(***************************************************************************)
(* app/utils/export.py (and _backup/ExportUtils.py): the DOCX exports      *)
(***************************************************************************)
DOCX_ERROR == <<"Error: python-docx not installed. Run: pip install python-docx">>

\* what an export function ends in: its return value (or the exception it
\* raised), and whether doc.save(output_path) wrote the file
Exported(value, saved, raised, combined) ==
    [ret |-> value, saved |-> saved, raised |-> raised, combined |-> combined]

\* speaker = segment.get('speaker', '') or ''; if not speaker or
\* speaker.startswith('SPEAKER_'): speaker = format_speaker(...)
ShownSpeaker(segment) ==
    LET speaker == IF segment.speaker = None THEN <<>> ELSE segment.speaker
    IN  IF Len(speaker) = 0 \/ StartsWith(speaker, SPEAKER_PREFIX)
        THEN format_speaker(segment.speaker)
        ELSE speaker

\* ' '.join(texts)
RECURSIVE JoinSpace(_)
JoinSpace(texts) ==
    IF Len(texts) = 0 THEN <<>>
    ELSE IF Len(texts) = 1 THEN texts[1]
    ELSE texts[1] \o <<" ">> \o JoinSpace(Tail(texts))

\* f"[{current_speaker}]: {' '.join(current_text)}"
CombinedLine(current_speaker, current_text) ==
    [speaker |-> current_speaker, text |-> JoinSpace(current_text)]

\* if current_speaker and current_text: combined_lines.append(...)
Flushed(acc) ==
    IF acc.current_speaker # None /\ Len(acc.current_speaker) > 0
           /\ Len(acc.current_text) > 0
    THEN Append(acc.lines, CombinedLine(acc.current_speaker, acc.current_text))
    ELSE acc.lines

CombineStep_never_merging(acc, segment) ==
    [lines |-> Flushed(acc),
     current_speaker |-> ShownSpeaker(segment),
     current_text |-> <<Strip(segment.text)>>]

\* one iteration of the loop of the combined-text section
CombineStep(acc, segment) ==
    LET speaker == ShownSpeaker(segment)
        text == Strip(segment.text)
    IN  IF speaker = acc.current_speaker
        THEN [acc EXCEPT !.current_text = Append(@, text)]
        ELSE [lines |-> Flushed(acc),
              current_speaker |-> speaker,
              current_text |-> <<text>>]

RECURSIVE CombineLoop(_)
CombineLoop(segs) ==
    IF Len(segs) = 0
    THEN [lines |-> <<>>, current_speaker |-> None, current_text |-> <<>>]
    ELSE CombineStep(CombineLoop(SubSeq(segs, 1, Len(segs) - 1)), segs[Len(segs)])

\* combined_lines: the loop over the segments sorted by start, then the last
\* speaker's text
combined_lines(segs) == Flushed(CombineLoop(SortedByStart(segs)))

\* export_transcript_to_docx: the availability test, the two loops over the
\* segments (format_speaker may raise), doc.save
export_transcript_saving_without_docx(segs, output_path, docx_available, save_ok) ==
    IF \E i \in 1..Len(segs) : ShownSpeaker(segs[i]) = ValueError
    THEN Exported(<<>>, FALSE, "ValueError", <<>>)
    ELSE IF ~save_ok
    THEN Exported(<<>>, FALSE, "OSError", <<>>)
    ELSE Exported(output_path, TRUE, "none", combined_lines(segs))

export_transcript_to_docx(segs, output_path, docx_available, save_ok) ==
    IF ~docx_available
    THEN Exported(DOCX_ERROR, FALSE, "none", <<>>)
    ELSE IF \E i \in 1..Len(segs) : ShownSpeaker(segs[i]) = ValueError
    THEN Exported(<<>>, FALSE, "ValueError", <<>>)
    ELSE IF ~save_ok
    THEN Exported(<<>>, FALSE, "OSError", <<>>)
    ELSE Exported(output_path, TRUE, "none", combined_lines(segs))

\* a / b > n for the exact quotient a / b with b > 0
RatioGreater(p, n) == p.num > n * p.den

NoSection == [written |-> FALSE, positions |-> 0, leaders |-> <<>>, others |-> <<>>]

\* POSITION_TEMPLATES.get(meeting_type_id, POSITION_TEMPLATES[0]): the key of
\* the template used
PositionsKey(meeting_type_id) ==
    IF meeting_type_id \in 0..11 THEN meeting_type_id ELSE 0

\* the participant header section: the leader paragraphs in the order they
\* are added, then the speakers listed under the "main" title
participant_section_without_fallback(speaker_summary, meeting_type_id) ==
    IF ~Truthy(speaker_summary) THEN NoSection
    ELSE LET st == DictGet(speaker_summary.value, "speaking_time", <<>>)
             total_time == TotalOrOne(st)
             srt == SortedByValueDesc(st)
             rows == [i \in 1..Len(srt) |->
                        [idx |-> i - 1, speaker |-> srt[i].k,
                         pct |-> Pct(srt[i].v, total_time)]]
             IsLeader(r) == r.idx = 0 /\ RatioGreater(r.pct, 25)
             IsMain(r) == ~IsLeader(r) /\ RatioGreater(r.pct, 10)
             IsParticipant(r) == ~IsLeader(r) /\ ~RatioGreater(r.pct, 10)
             Names(rs) == [i \in 1..Len(rs) |-> rs[i].speaker]
             in_loop == Names(SelectSeq(rows, IsLeader))
         IN  IF Len(st) = 0 THEN NoSection
             ELSE [written |-> TRUE,
                   positions |-> PositionsKey(meeting_type_id),
                   leaders |-> in_loop,
                   others |-> Names(SelectSeq(rows, IsMain))
                                 \o Names(SelectSeq(rows, IsParticipant))]

participant_section(speaker_summary, meeting_type_id) ==
    IF ~Truthy(speaker_summary) THEN NoSection
    ELSE LET st == DictGet(speaker_summary.value, "speaking_time", <<>>)
             total_time == TotalOrOne(st)
             srt == SortedByValueDesc(st)
             rows == [i \in 1..Len(srt) |->
                        [idx |-> i - 1, speaker |-> srt[i].k,
                         pct |-> Pct(srt[i].v, total_time)]]
             IsLeader(r) == r.idx = 0 /\ RatioGreater(r.pct, 25)
             IsMain(r) == ~IsLeader(r) /\ RatioGreater(r.pct, 10)
             IsParticipant(r) == ~IsLeader(r) /\ ~RatioGreater(r.pct, 10)
             Names(rs) == [i \in 1..Len(rs) |-> rs[i].speaker]
             in_loop == Names(SelectSeq(rows, IsLeader))
             leader_added == Len(in_loop) > 0
         IN  IF Len(st) = 0 THEN NoSection
             ELSE [written |-> TRUE,
                   positions |-> PositionsKey(meeting_type_id),
                   leaders |-> IF ~leader_added /\ Len(srt) > 0
                               THEN in_loop \o <<srt[1].k>>
                               ELSE in_loop,
                   others |-> Names(SelectSeq(rows, IsMain))
                                 \o Names(SelectSeq(rows, IsParticipant))]

\* export_summary_to_docx: the availability test, the participant header
\* section, the body built from summary_text, doc.save
export_summary_to_docx(output_path, speaker_summary, meeting_type_id, docx_available, save_ok) ==
    IF ~docx_available
    THEN [ret |-> DOCX_ERROR, saved |-> FALSE, raised |-> "none",
          pcts |-> <<>>, section |-> NoSection]
    ELSE [ret |-> IF save_ok THEN output_path ELSE <<>>,
          saved |-> save_ok,
          raised |-> IF save_ok THEN "none" ELSE "OSError",
          pcts |-> export_summary_pcts(speaker_summary),
          section |-> participant_section(speaker_summary, meeting_type_id)]

TranscriptPath == <<"transcript.docx">>

SummaryPath == <<"summary.docx">>

\* export_both: the two exports in turn; an exception of the first leaves the
\* second undone
export_both(segs, speaker_summary, meeting_type_id, docx_available, save_ok) ==
    LET t == export_transcript_to_docx(segs, TranscriptPath, docx_available, save_ok)
        u == export_summary_to_docx(SummaryPath, speaker_summary, meeting_type_id,
                                    docx_available, save_ok)
    IN  IF t.raised # "none"
        THEN [raised |-> t.raised, results |-> <<>>, saved |-> {}]
        ELSE IF u.raised # "none"
        THEN [raised |-> u.raised, results |-> <<>>, saved |-> {TranscriptPath}]
        ELSE [raised |-> "none",
              results |-> <<[k |-> "transcript", v |-> t.ret],
                            [k |-> "summary", v |-> u.ret]>>,
              saved |-> {q \in {TranscriptPath, SummaryPath} :
                            \/ q = TranscriptPath /\ t.saved
                            \/ q = SummaryPath /\ u.saved}]

\* the speaker labels of the segments given to the exports: the diarizer's,
\* names already mapped, and labels a client of the export endpoint can send
ExportLabels ==
    {None, <<>>, <<"B", "o", "b">>, SPEAKER_PREFIX \o <<"0", "0">>,
     SPEAKER_PREFIX \o <<"0", "1">>, SPEAKER_PREFIX \o <<"x">>}

ExportTexts == {<<"a">>, <<" ", "b">>}

ExportSegmentLists ==
    SeqsUpTo({Segment(b, b + 1, t, l) : b \in Starts, t \in ExportTexts,
                                        l \in ExportLabels},
             MaxSegs)

\* the segments of the requests to /api/export/transcript
RequestSegmentLists ==
    SeqsUpTo({Segment(0, 1, <<"a">>, l) : l \in ExportLabels}, MaxSegs)

SpeakerNames == <<<<"A">>, <<"B">>, <<"C">>, <<"D">>, <<"E">>>>

\* n speakers with one time unit each
EvenSplit(n) == [i \in 1..n |-> [k |-> SpeakerNames[i], v |-> 1]]

\* the speaker_summary arguments of export_summary_to_docx
ExportSummaries ==
    OptionalSummaries
    \cup {SomeDict(SpeakerSummary(EvenSplit(n), <<>>)) : n \in 3..Len(SpeakerNames)}
    \cup {SomeDict(<<[k |-> "word_count", v |-> <<>>]>>)}

ExportTypeIds == {0, 7, 12}

\* the speaker_summary fields of the requests to /api/export/summary
RequestSummaries ==
    {NoneDict, SomeDict(<<>>)}
    \cup {SomeDict(SpeakerSummary(EvenSplit(n), <<>>)) : n \in 3..Len(SpeakerNames)}

(***************************************************************************)
(* api.py: POST /api/transcribe-summarize and GET /api/meeting-types       *)
(***************************************************************************)
UpperCase == <<"A", "F", "M", "P", "V", "W">>

LowerCase == <<"a", "f", "m", "p", "v", "w">>

\* c.lower()
LowerChar(c) ==
    IF \E i \in 1..Len(UpperCase) : UpperCase[i] = c
    THEN LowerCase[CHOOSE i \in 1..Len(UpperCase) : UpperCase[i] = c]
    ELSE c

\* s.lower()
Lower_identity(s) == s

Lower(s) == [i \in 1..Len(s) |-> LowerChar(s[i])]

\* s.rfind(c) + 1: position of the last occurrence of c in s, 0 if none
RECURSIVE RFind(_, _)
RFind(s, c) ==
    IF Len(s) = 0 THEN 0
    ELSE IF s[Len(s)] = c THEN Len(s)
    ELSE RFind(SubSeq(s, 1, Len(s) - 1), c)

\* os.path.splitext(p)[1]: from the last dot of the last path component, unless
\* that component has only dots before it
SplitExt1(path) ==
    LET sepIndex == RFind(path, "/")
        dotIndex == RFind(path, ".")
    IN  IF /\ dotIndex > sepIndex
           /\ \E i \in (sepIndex + 1)..(dotIndex - 1) : path[i] # "."
        THEN SubSeq(path, dotIndex, Len(path))
        ELSE <<>>

allowed_extensions ==
    {<<".", "m", "p", "3">>, <<".", "w", "a", "v">>, <<".", "m", "4", "a">>,
     <<".", "f", "l", "a", "c">>, <<".", "o", "g", "g">>,
     <<".", "w", "e", "b", "m">>, <<".", "m", "p", "4">>}

\* file_ext = os.path.splitext(audio.filename)[1].lower()
file_ext(filename) == Lower(SplitExt1(filename))

\* the parameters of TranscribeSummaryPipeline.process
process_parameters == {"self", "audio_file", "meeting_type_id"}

\* the keyword arguments of the call pipeline.process(temp_file, ...) in api.py
process_call_keywords == {"meeting_type_id", "speaker_names"}

\* Python binds a call only if every keyword names a parameter
CallBinds == process_call_keywords \subseteq process_parameters

\* the filenames of the uploads
Filenames ==
    {<<>>, <<"a">>, <<"a", ".", "t", "x", "t">>, <<".", "m", "p", "3">>,
     <<".", ".", "m", "p", "4">>, <<"a", ".", "m", "p", "3", "3">>,
     <<"a", ".", "m", "p", "3", ".", "e", "x", "e">>,
     <<"a", ".", "w", "a", "v", "/", "b">>,
     <<".", ".", "/", "a", ".", "m", "p", "3">>,
     <<".", "/", "a", ".", "m", "p", "3">>,
     <<"b", "/", "a", ".", "m", "p", "3">>,
     <<"/", "a", ".", "m", "p", "3">>,
     <<"a", ".", "M", "P", "3">>, <<"a", ".", "W", "a", "v">>,
     <<"a", ".", "F", "L", "A", "C">>}
    \cup {<<"a">> \o e : e \in allowed_extensions}
    \cup {<<"a", ".", "b">> \o e : e \in allowed_extensions}

Endpoints ==
    {"transcribe-summarize", "meeting-types", "export-transcript", "export-summary"}

ExportEndpoints == {"export-transcript", "export-summary"}

\* a request: the form fields or the JSON body, and what the environment will
\* do to it (upload_ok: the upload can be written; services_ok: the models
\* and the gateway work; save_ok: doc.save can write)
Request(endpoint, meeting_type_id, filename, upload_ok, services_ok) ==
    [endpoint |-> endpoint, meeting_type_id |-> meeting_type_id,
     filename |-> filename, upload_ok |-> upload_ok, services_ok |-> services_ok,
     segs |-> <<>>, summary |-> NoneDict, save_ok |-> TRUE]

NoResponse == [status |-> 0]

HTTPException(status_code, detail) == [status |-> status_code, detail |-> detail]

InitApi ==
    /\ apc = "start"
    /\ \/ req = Request("meeting-types", 0, <<>>, TRUE, TRUE)
       \/ \E i \in MeetingIds, f \in Filenames, u \in BOOLEAN, v \in BOOLEAN :
             req = Request("transcribe-summarize", i, f, u, v)
       \/ \E l \in RequestSegmentLists, w \in BOOLEAN :
             req = [Request("export-transcript", 0, <<>>, TRUE, TRUE)
                       EXCEPT !.segs = l, !.save_ok = w]
       \/ \E o \in RequestSummaries, i \in ExportTypeIds, w \in BOOLEAN :
             req = [Request("export-summary", i, <<>>, TRUE, TRUE)
                       EXCEPT !.summary = o, !.save_ok = w]
    /\ temp_dir = "none"
    /\ written = FALSE
    /\ temp_file = "none"
    /\ pipeline_runs = 0
    /\ response = NoResponse
    /\ background = "none"

\* GET /api/meeting-types
GetMeetingTypes ==
    /\ apc = "start"
    /\ req.endpoint = "meeting-types"
    /\ response' = [status |-> 200, success |-> TRUE,
                    meeting_types |->
                        [i \in 1..Len(MEETING_TYPES) |->
                            [id |-> MEETING_TYPES[i].k,
                             name |-> MEETING_TYPES[i].v.name,
                             thai |-> MEETING_TYPES[i].v.thai,
                             structure |-> MEETING_TYPES[i].v.structure]]]
    /\ apc' = "done"
    /\ UNCHANGED <<req, temp_dir, written, pipeline_runs>>
    /\ UNCHANGED <<temp_file, background, procvars, fmtvars, clivars, modvars>>

\* the range test on meeting_type_id
meeting_type_id_rejected_above_ten(meeting_type_id) ==
    meeting_type_id < 0 \/ meeting_type_id > 10

meeting_type_id_rejected(meeting_type_id) ==
    meeting_type_id < 0 \/ meeting_type_id > 11

\* "Validate meeting type"
ValidateMeetingType ==
    /\ apc = "start"
    /\ req.endpoint = "transcribe-summarize"
    /\ IF meeting_type_id_rejected(req.meeting_type_id)
       THEN /\ response' = HTTPException(400, "meeting_type_id must be between 0 and 11")
            /\ apc' = "done"
       ELSE /\ apc' = "validate_file"
            /\ UNCHANGED response
    /\ UNCHANGED <<req, temp_dir, written, pipeline_runs>>
    /\ UNCHANGED <<temp_file, background, procvars, fmtvars, clivars, modvars>>

\* the test on the file type
file_type_rejected(filename) == file_ext(filename) \notin allowed_extensions

\* "Validate file type" (the parse of speaker_names before it cannot fail)
ValidateFileType ==
    /\ apc = "validate_file"
    /\ IF file_type_rejected(req.filename)
       THEN /\ response' = HTTPException(400, "Unsupported file type.")
            /\ apc' = "done"
       ELSE /\ apc' = "mkdtemp"
            /\ UNCHANGED response
    /\ UNCHANGED <<req, temp_dir, written, pipeline_runs>>
    /\ UNCHANGED <<temp_file, background, procvars, fmtvars, clivars, modvars>>

\* temp_dir = tempfile.mkdtemp()
MakeTempDir ==
    /\ apc = "mkdtemp"
    /\ temp_dir' = "exists"
    /\ apc' = "write_upload"
    /\ UNCHANGED <<req, written, pipeline_runs, response>>
    /\ UNCHANGED <<temp_file, background, procvars, fmtvars, clivars, modvars>>

\* the path components of the directory part of a relative path are walked
\* from temp_dir, a directory that was just created and is empty: "." and ""
\* stay, ".." goes to the parent, a name leads to a directory that does not
\* exist.  depth is 0 in temp_dir and negative above it.
RECURSIVE WalkDirs(_, _)
WalkDirs(parts, depth) ==
    IF Len(parts) = 0 THEN [ok |-> TRUE, depth |-> depth]
    ELSE IF parts[1] \in {<<>>, <<".">>} THEN WalkDirs(Tail(parts), depth)
    ELSE IF parts[1] = <<".", ".">> THEN WalkDirs(Tail(parts), depth - 1)
    ELSE [ok |-> FALSE, depth |-> depth]

\* temp_file = os.path.join(temp_dir, audio.filename); open(temp_file, "wb"):
\* where the file is created, "error" when open raises OSError
WriteLocation(filename) ==
    LET parts == Split(filename, "/")
        last == parts[Len(parts)]
        walk == WalkDirs(SubSeq(parts, 1, Len(parts) - 1), 0)
    IN  IF last \in {<<>>, <<".">>, <<".", ".">>} THEN "error"
        ELSE IF StartsWith(filename, <<"/">>) THEN "outside_temp_dir"
        ELSE IF ~walk.ok THEN "error"
        ELSE IF walk.depth < 0 THEN "outside_temp_dir"
        ELSE "in_temp_dir"

\* the with-block that copies the upload; an OSError is caught by
\* "except Exception"
WriteUpload ==
    /\ apc = "write_upload"
    /\ IF req.upload_ok /\ WriteLocation(req.filename) # "error"
       THEN /\ written' = TRUE
            /\ temp_file' = WriteLocation(req.filename)
            /\ apc' = "run_pipeline"
            /\ UNCHANGED response
       ELSE /\ response' = HTTPException(500, "Processing error: OSError")
            /\ apc' = "finally"
            /\ UNCHANGED <<written, temp_file>>
    /\ UNCHANGED <<req, temp_dir, pipeline_runs>>
    /\ UNCHANGED <<background, procvars, fmtvars, clivars, modvars>>

\* pipeline.process(temp_file, meeting_type_id=..., speaker_names=...) and the
\* response built from its result; every exception becomes an HTTP 500
RunPipeline ==
    /\ apc = "run_pipeline"
    /\ IF ~CallBinds
       THEN /\ response' = HTTPException(500, "Processing error: TypeError")
            /\ UNCHANGED pipeline_runs
       ELSE /\ pipeline_runs' = pipeline_runs + 1
            /\ IF req.services_ok
               THEN response' = [status |-> 200, success |-> TRUE]
               ELSE response' = HTTPException(500, "Processing error: RuntimeError")
    /\ apc' = "finally"
    /\ UNCHANGED <<req, temp_dir, written>>
    /\ UNCHANGED <<temp_file, background, procvars, fmtvars, clivars, modvars>>

\* finally: shutil.rmtree(temp_dir), which removes what is inside temp_dir
Cleanup_only_on_success ==
    /\ apc = "finally"
    /\ temp_dir' = IF temp_dir = "exists" /\ response.status = 200
                   THEN "removed" ELSE temp_dir
    /\ temp_file' = IF temp_file = "in_temp_dir" /\ response.status = 200
                   THEN "removed" ELSE temp_file
    /\ apc' = "done"
    /\ UNCHANGED <<req, written, pipeline_runs, response>>
    /\ UNCHANGED <<background, procvars, fmtvars, clivars, modvars>>

Cleanup ==
    /\ apc = "finally"
    /\ temp_dir' = IF temp_dir = "exists" THEN "removed" ELSE temp_dir
    /\ temp_file' = IF temp_file = "in_temp_dir" THEN "removed" ELSE temp_file
    /\ apc' = "done"
    /\ UNCHANGED <<req, written, pipeline_runs, response>>
    /\ UNCHANGED <<background, procvars, fmtvars, clivars, modvars>>

\* POST /api/export/transcript, POST /api/export/summary:
\* temp_dir = tempfile.mkdtemp()
ExportMakeTempDir ==
    /\ apc = "start"
    /\ req.endpoint \in ExportEndpoints
    /\ temp_dir' = "exists"
    /\ apc' = "generate"
    /\ UNCHANGED <<req, written, temp_file, pipeline_runs, response, background>>
    /\ UNCHANGED <<procvars, fmtvars, clivars, modvars>>

\* what the export function of the endpoint ends in
ExportResult ==
    IF req.endpoint = "export-transcript"
    THEN export_transcript_to_docx(req.segs, TranscriptPath, DOCX_AVAILABLE,
                                   req.save_ok)
    ELSE export_summary_to_docx(SummaryPath, req.summary, req.meeting_type_id,
                                DOCX_AVAILABLE, req.save_ok)

\* the try block: the export function is called and its return value is not
\* looked at; return FileResponse(path=output_path, background=BackgroundTask(
\* shutil.rmtree, temp_dir, ignore_errors=True)); an exception is caught
ExportGenerate ==
    /\ apc = "generate"
    /\ IF ExportResult.raised # "none"
       THEN /\ response' = [status |-> 0, raised |-> ExportResult.raised]
            /\ apc' = "except"
            /\ UNCHANGED <<temp_file, background>>
       ELSE /\ temp_file' = IF ExportResult.saved THEN "in_temp_dir" ELSE "none"
            /\ response' = [status |-> 200, sent |-> FALSE]
            /\ background' = "pending"
            /\ apc' = "respond"
    /\ UNCHANGED <<req, temp_dir, written, pipeline_runs>>
    /\ UNCHANGED <<procvars, fmtvars, clivars, modvars>>

\* except Exception: if os.path.exists(temp_dir): shutil.rmtree(temp_dir)
ExportExceptCleanup ==
    /\ apc = "except"
    /\ temp_dir' = IF temp_dir = "exists" THEN "removed" ELSE temp_dir
    /\ temp_file' = IF temp_file = "in_temp_dir" THEN "removed" ELSE temp_file
    /\ apc' = "raise"
    /\ UNCHANGED <<req, written, pipeline_runs, response, background>>
    /\ UNCHANGED <<procvars, fmtvars, clivars, modvars>>

\* raise HTTPException(status_code=500, detail=f"Export error: {str(e)}")
ExportRaise ==
    /\ apc = "raise"
    /\ response' = HTTPException(500, "Export error")
    /\ apc' = "done"
    /\ UNCHANGED <<req, temp_dir, written, temp_file, pipeline_runs, background>>
    /\ UNCHANGED <<procvars, fmtvars, clivars, modvars>>

\* the FileResponse is sent by the framework: it stats the file and raises
\* RuntimeError when there is none, in which case the client gets a 500 and
\* the background task is not run; otherwise the file goes out
SendFileResponse ==
    /\ apc = "respond"
    /\ IF temp_file = "in_temp_dir"
       THEN /\ response' = [status |-> 200, sent |-> TRUE]
            /\ apc' = "background"
       ELSE /\ response' = HTTPException(500, "RuntimeError: File at path does not exist.")
            /\ apc' = "done"
    /\ UNCHANGED <<req, temp_dir, written, temp_file, pipeline_runs, background>>
    /\ UNCHANGED <<procvars, fmtvars, clivars, modvars>>

\* the BackgroundTask, after the response was sent:
\* shutil.rmtree(temp_dir, ignore_errors=True)
RunBackgroundTask ==
    /\ apc = "background"
    /\ background = "pending"
    /\ temp_dir' = "removed"
    /\ temp_file' = IF temp_file = "in_temp_dir" THEN "removed" ELSE temp_file
    /\ background' = "ran"
    /\ apc' = "done"
    /\ UNCHANGED <<req, written, pipeline_runs, response>>
    /\ UNCHANGED <<procvars, fmtvars, clivars, modvars>>

(***************************************************************************)
(* main.py: main() (TM.py's __main__ block has the same statements)        *)
(***************************************************************************)
MaxPrompts == 3        \* answers read by the selection loop

\* the lines input() can return
CliInputs ==
    {<<>>, <<" ">>, <<"a">>, <<"1", "a">>, <<"-">>, <<"1", ".", "0">>,
     <<"0">>, <<"5">>, <<"1", "0">>, <<"1", "1">>, <<"1", "2">>, <<"9", "9">>,
     <<"-", "1">>, <<"-", "0">>, <<"+", "3">>, <<"0", "0", "7">>,
     <<"0", "1", "2">>, <<" ", "5", " ">>, <<"1", " ", "1">>,
     <<"1", "_", "1">>, <<"1", "_", "2">>, <<"1", "_", "_", "1">>,
     <<"_", "1">>, <<"1", "_">>}

\* a local int that is not bound yet, or its value
NoneInt == [is_none |-> TRUE, value |-> 0]

SomeInt(n) == [is_none |-> FALSE, value |-> n]

InitCli ==
    /\ cpc = "start"
    /\ audio_exists \in BOOLEAN
    /\ meeting_choice = <<>>
    /\ cli_meeting_type_id = NoneInt
    /\ prompts = 0

\* audio_file = input(...); if not os.path.exists(audio_file): return;
\* otherwise the menu is printed
CheckPath ==
    /\ cpc = "start"
    /\ cpc' = IF audio_exists THEN "prompt" ELSE "returned"
    /\ UNCHANGED <<audio_exists, meeting_choice, cli_meeting_type_id, prompts>>
    /\ UNCHANGED <<procvars, apivars, fmtvars, modvars>>

\* if 0 <= meeting_type_id <= 11: break
choice_accepted_up_to_twelve(id) == 0 <= id /\ id <= 12

choice_accepted(id) == 0 <= id /\ id <= 11

\* one iteration of "while True": input, int, range test
ReadChoice ==
    /\ cpc = "prompt"
    /\ prompts < MaxPrompts
    /\ \E line \in CliInputs :
          LET choice == Strip(line)
              n == PyInt(choice)
          IN  /\ meeting_choice' = choice
              /\ IF n.raised
                 THEN /\ cpc' = "prompt"
                      /\ UNCHANGED cli_meeting_type_id
                 ELSE /\ cli_meeting_type_id' = SomeInt(n.v)
                      /\ cpc' = IF choice_accepted(n.v) THEN "selected" ELSE "prompt"
    /\ prompts' = prompts + 1
    /\ UNCHANGED audio_exists
    /\ UNCHANGED <<procvars, apivars, fmtvars, modvars>>

\* selected_type = MEETING_TYPES[meeting_type_id]; pipeline =
\* TranscribeSummaryPipeline(); pipeline.process(audio_file, meeting_type_id=...)
\* is entered.  The run of process() from there on is the specification Spec.
CallProcess ==
    /\ cpc = "selected"
    /\ DictHas(MEETING_TYPES, cli_meeting_type_id.value)
    /\ pc = "idle"
    /\ pc' = "load_model"
    /\ type_id' = cli_meeting_type_id.value
    /\ cpc' = "process"
    /\ UNCHANGED <<model, diarize_model, api_key, result, segments, speakers_time,
                   speakers_words, transcript_lines, summary_text, http_posts,
                   steps>>
    /\ UNCHANGED <<audio_exists, meeting_choice, cli_meeting_type_id, prompts>>
    /\ UNCHANGED <<apivars, fmtvars, modvars>>

(***************************************************************************)
(* The helpers applied to one input each                                   *)
(***************************************************************************)
Call(fn, label, seconds, id, summary) ==
    [fn |-> fn, label |-> label, seconds |-> seconds, id |-> id, summary |-> summary,
     key |-> None, outcome |-> Answer("ok", JNull), segs |-> <<>>]

\* os.getenv("NTC_API_KEY"): unset, set to the empty string, set
ApiKeys == {None, <<>>, <<"k">>}

\* the speaker_summary dicts given to summarize_with_diarization
SummarizerSummaries ==
    {SpeakerSummary(d, AllWords(d, 2)) :
        d \in {t \in TimeDicts : \A i \in 1..Len(t) : t[i].v >= 0}}

SampleTranscript == <<[speaker |-> <<"A">>, text |-> <<"a">>]>>

Returned(v) == [done |-> TRUE, v |-> v]

\* one call of one helper, not yet run
InitFmt ==
    /\ ret = [done |-> FALSE]
    /\ \/ \E l \in SpeakerLabels : call = Call("format_speaker", l, 0, 0, NoneDict)
       \/ \E t \in TimeArgs : call = Call("format_time", <<>>, t, 0, NoneDict)
       \/ \E i \in MeetingIds :
             \/ call = Call("get_meeting_type_prompt", <<>>, 0, i, NoneDict)
             \/ call = Call("SummaryModel.get_meeting_type_prompt", <<>>, 0, i, NoneDict)
       \/ \E d \in Summaries :
             \/ call = Call("speaker_info_lines", <<>>, 0, 0, SomeDict(d))
             \/ call = Call("print_results", <<>>, 0, 0, SomeDict(d))
       \/ \E o \in ExportSummaries, i \in ExportTypeIds :
             call = Call("export_summary_to_docx", <<>>, 0, i, o)
       \/ \E l \in ExportSegmentLists :
             \/ call = [Call("export_transcript_to_docx", <<>>, 0, 0, NoneDict)
                           EXCEPT !.segs = l]
             \/ call = [Call("export_both", <<>>, 0, 0, NoneDict)
                           EXCEPT !.segs = l]
       \/ \E i \in MeetingIds, d \in SummarizerSummaries, key \in ApiKeys,
             o \in LLMOutcomes :
             /\ i \in {0, 12} \/ o \in ProcessOutcomes
             /\ call = [Call("summarize_with_diarization", <<>>, 0, i, SomeDict(d))
                           EXCEPT !.key = key, !.outcome = o]

Call_format_speaker ==
    /\ call.fn = "format_speaker"
    /\ ~ret.done
    /\ ret' = Returned(format_speaker(call.label))
    /\ UNCHANGED <<call, procvars, apivars, clivars, modvars>>

Call_format_time ==
    /\ call.fn = "format_time"
    /\ ~ret.done
    /\ ret' = Returned(format_time(call.seconds))
    /\ UNCHANGED <<call, procvars, apivars, clivars, modvars>>

Call_get_meeting_type_prompt ==
    /\ call.fn = "get_meeting_type_prompt"
    /\ ~ret.done
    /\ ret' = Returned(get_meeting_type_prompt(call.id))
    /\ UNCHANGED <<call, procvars, apivars, clivars, modvars>>

Call_SummaryModel_get_meeting_type_prompt ==
    /\ call.fn = "SummaryModel.get_meeting_type_prompt"
    /\ ~ret.done
    /\ ret' = Returned(SummaryModel_get_meeting_type_prompt(call.id))
    /\ UNCHANGED <<call, procvars, apivars, clivars, modvars>>

\* the speaker-information block of summarize_with_diarization
Call_speaker_info_lines ==
    /\ call.fn = "speaker_info_lines"
    /\ ~ret.done
    /\ ret' = Returned(speaker_info_lines(call.summary.value))
    /\ UNCHANGED <<call, procvars, apivars, clivars, modvars>>

\* the SPEAKER SUMMARY block of print_results
Call_print_results ==
    /\ call.fn = "print_results"
    /\ ~ret.done
    /\ ret' = Returned(print_results_speaker_lines(call.summary.value))
    /\ UNCHANGED <<call, procvars, apivars, clivars, modvars>>

\* export_summary_to_docx(summary_text, output_path, speaker_summary,
\* meeting_type_id) with a writable output_path
Call_export_summary_to_docx ==
    /\ call.fn = "export_summary_to_docx"
    /\ ~ret.done
    /\ ret' = Returned(export_summary_to_docx(SummaryPath, call.summary, call.id,
                                              DOCX_AVAILABLE, TRUE))
    /\ UNCHANGED <<call, procvars, apivars, clivars, modvars>>

\* export_transcript_to_docx(segments, output_path) with a writable output_path
Call_export_transcript_to_docx ==
    /\ call.fn = "export_transcript_to_docx"
    /\ ~ret.done
    /\ ret' = Returned(export_transcript_to_docx(call.segs, TranscriptPath,
                                                 DOCX_AVAILABLE, TRUE))
    /\ UNCHANGED <<call, procvars, apivars, clivars, modvars>>

\* export_both(segments, summary_text, base_path) as main() calls it: no
\* speaker_summary, meeting_type_id 0
Call_export_both ==
    /\ call.fn = "export_both"
    /\ ~ret.done
    /\ ret' = Returned(export_both(call.segs, NoneDict, 0, DOCX_AVAILABLE, TRUE))
    /\ UNCHANGED <<call, procvars, apivars, clivars, modvars>>

Call_summarize_with_diarization ==
    /\ call.fn = "summarize_with_diarization"
    /\ ~ret.done
    /\ ret' = Returned(summarize_with_diarization(
                           SampleTranscript, call.summary.value, call.id,
                           call.key, call.outcome))
    /\ UNCHANGED <<call, procvars, apivars, clivars, modvars>>

(***************************************************************************)
(* Specifications: the pipeline run, the endpoint, the helpers             *)
(***************************************************************************)
IdleFmt ==
    /\ call = Call("none", <<>>, 0, 0, NoneDict)
    /\ ret = [done |-> FALSE]

IdleProcess ==
    /\ pc = "idle"
    /\ model = "None"
    /\ diarize_model = "None"
    /\ api_key = None
    /\ type_id = 0
    /\ result = <<>>
    /\ segments = <<>>
    /\ speakers_time = <<>>
    /\ speakers_words = <<>>
    /\ transcript_lines = <<>>
    /\ summary_text = <<>>
    /\ http_posts = <<>>
    /\ steps = <<>>

IdleApi ==
    /\ apc = "idle"
    /\ req = Request("none", 0, <<>>, TRUE, TRUE)
    /\ temp_dir = "none"
    /\ written = FALSE
    /\ temp_file = "none"
    /\ pipeline_runs = 0
    /\ response = NoResponse
    /\ background = "none"

IdleCli ==
    /\ cpc = "idle"
    /\ audio_exists = TRUE
    /\ meeting_choice = <<>>
    /\ cli_meeting_type_id = NoneInt
    /\ prompts = 0

Init == InitProcess /\ IdleApi /\ IdleFmt /\ IdleCli /\ DOCX_AVAILABLE = TRUE

Next ==
    \/ LoadModel
    \/ LoadAudio
    \/ Transcribe
    \/ ReleaseModel
    \/ LoadDiarization
    \/ Diarize
    \/ AssignSpeakers
    \/ ReleaseDiarization
    \/ Aggregate
    \/ Summarize
    \/ Raise

Spec == Init /\ [][Next]_vars

InitApiSpec ==
    InitApi /\ IdleProcess /\ IdleFmt /\ IdleCli /\ DOCX_AVAILABLE \in BOOLEAN

NextApi ==
    \/ GetMeetingTypes
    \/ ValidateMeetingType
    \/ ValidateFileType
    \/ MakeTempDir
    \/ WriteUpload
    \/ RunPipeline
    \/ Cleanup
    \/ ExportMakeTempDir
    \/ ExportGenerate
    \/ ExportExceptCleanup
    \/ ExportRaise
    \/ SendFileResponse
    \/ RunBackgroundTask

SpecApi == InitApiSpec /\ [][NextApi]_vars

InitFmtSpec ==
    InitFmt /\ IdleProcess /\ IdleApi /\ IdleCli /\ DOCX_AVAILABLE \in BOOLEAN

NextFmt ==
    \/ Call_format_speaker
    \/ Call_format_time
    \/ Call_get_meeting_type_prompt
    \/ Call_SummaryModel_get_meeting_type_prompt
    \/ Call_speaker_info_lines
    \/ Call_print_results
    \/ Call_export_summary_to_docx
    \/ Call_export_transcript_to_docx
    \/ Call_export_both
    \/ Call_summarize_with_diarization

SpecFmt == InitFmtSpec /\ [][NextFmt]_vars

InitCliSpec ==
    InitCli /\ IdleProcess /\ IdleApi /\ IdleFmt /\ DOCX_AVAILABLE = TRUE

NextCli ==
    \/ CheckPath
    \/ ReadChoice
    \/ CallProcess
    \/ LoadModel

SpecCli == InitCliSpec /\ [][NextCli]_vars

(***************************************************************************)
(* Properties                                                              *)
(***************************************************************************)
RECURSIVE SumOver(_, _)
\* the sum of f[i] over the indices i of the finite set I
SumOver(I, f) ==
    IF I = {} THEN 0
    ELSE LET i == CHOOSE j \in I : TRUE IN f[i] + SumOver(I \ {i}, f)

\* number of whitespace-separated tokens of a text: the positions where a
\* token begins
TokenCount(text) ==
    Cardinality({i \in 1..Len(text) :
                    /\ ~IsSpace(text[i])
                    /\ (i = 1 \/ IsSpace(text[i - 1]))})

Aggregated == pc \in {"summarize", "done"}

\* the segments of the diarized result whose speaker is shown as label
SegmentsOf(label) == {i \in 1..Len(result) : format_speaker(result[i].speaker) = label}

ShownLabels == {format_speaker(l) : l \in DiarLabels}

\* C1: after the aggregation, a label is a key of speaking_time and of
\* word_count exactly if some segment maps to it, its speaking time is the
\* sum of end - start over exactly those segments and its word count the sum
\* of their numbers of whitespace-separated tokens.
C1_PerSpeakerSums ==
    Aggregated =>
        /\ DictKeys(speakers_time) \subseteq ShownLabels
        /\ DictKeys(speakers_words) \subseteq ShownLabels
        /\ \A label \in ShownLabels :
              LET segs == SegmentsOf(label)
              IN  /\ DictHas(speakers_time, label) <=> segs # {}
                  /\ DictHas(speakers_words, label) <=> segs # {}
                  /\ segs # {} =>
                        /\ DictGet(speakers_time, label, 0) =
                              SumOver(segs, [i \in 1..Len(result) |->
                                                result[i].end - result[i].start])
                        /\ DictGet(speakers_words, label, 0) =
                              SumOver(segs, [i \in 1..Len(result) |->
                                                TokenCount(result[i].text)])

\* two segments of one speaker with different durations and words, and a
\* second speaker, have been aggregated
C1_Witness ==
    /\ Aggregated
    /\ Len(result) >= 2
    /\ \E label \in ShownLabels :
          /\ Cardinality(SegmentsOf(label)) >= 2
          /\ DictGet(speakers_time, label, 0) = 3
          /\ DictGet(speakers_words, label, 0) = 3

PercentageCode == {"speaker_info_lines", "print_results", "export_summary_to_docx"}

\* the speaking_time dict of the speaker_summary argument of the call
CallTimes == DictGet(call.summary.value, "speaking_time", <<>>)

\* the percentage lines the call computed
Percentages ==
    IF call.fn = "export_summary_to_docx" THEN ret.v.pcts ELSE ret.v

\* C2: in summarize_with_diarization, print_results and
\* export_summary_to_docx no speaker's percentage raises ZeroDivisionError,
\* whatever the speaker_summary, and every percentage is 0 when the total
\* speaking time is not positive.
C2_PercentageGuarded ==
    (ret.done /\ call.fn \in PercentageCode) =>
        \A i \in 1..Len(Percentages) :
            /\ ~Percentages[i].pct.raised
            /\ DictSum(CallTimes) <= 0 => Percentages[i].pct.num = 0

\* a speaker_summary with two speakers whose non-zero times sum to zero has
\* been through the percentage code
C2_Witness ==
    /\ ret.done
    /\ call.fn \in PercentageCode
    /\ Len(CallTimes) = 2
    /\ CallTimes[1].v # 0
    /\ DictSum(CallTimes) = 0
    /\ Len(Percentages) = 2

\* the menu entry of a concrete meeting type
MenuEntry(id) == (CHOOSE i \in 1..Len(MEETING_TYPES) : MEETING_TYPES[i].k = id)

PromptCode == {"get_meeting_type_prompt", "SummaryModel.get_meeting_type_prompt"}

\* C3: get_meeting_type_prompt answers every integer id: 0 with the
\* auto-detect instruction, 1..11 with the instruction of that id's own name,
\* Thai name and structure, every other id with the instruction of type 11
\* (General Meeting).
C3_PromptTotalWithDefault ==
    (ret.done /\ call.fn \in PromptCode) =>
        IF call.id = 0
        THEN /\ ret.v.kind = "auto"
             /\ Len(ret.v.table) > 0
        ELSE /\ ret.v.kind = "specific"
             /\ LET e == IF call.id \in 1..11 THEN MEETING_TYPES[MenuEntry(call.id)]
                         ELSE MEETING_TYPES[MenuEntry(11)]
                IN  /\ e.k = (IF call.id \in 1..11 THEN call.id ELSE 11)
                    /\ ret.v.name = e.v.name
                    /\ ret.v.thai = e.v.thai
                    /\ ret.v.structure = e.v.structure
             /\ call.id \notin 0..11 => ret.v.name = "General Meeting"
             /\ (call.id \notin 0..11 /\ call.fn = "SummaryModel.get_meeting_type_prompt")
                    => ret.v = SummaryModel_get_meeting_type_prompt(11)

\* an id above the menu has been answered with type 11
C3_Witness ==
    /\ ret.done
    /\ call.fn = "get_meeting_type_prompt"
    /\ call.id > 11
    /\ ret.v.name = "General Meeting"

MenuIds == {MEETING_TYPES[i].k : i \in 1..Len(MEETING_TYPES)}

\* the rows of the auto-detect prompt that show the menu entry id
AutoRowsOf(id) ==
    LET table == get_meeting_type_prompt(0).table
    IN  {r \in 1..Len(table) :
            /\ table[r].name = MEETING_TYPES[MenuEntry(id)].v.name
            /\ table[r].structure = MEETING_TYPES[MenuEntry(id)].v.structure}

\* C4: the menu has exactly twelve entries, ids 0..11; the auto-detect prompt
\* lists each of the eleven concrete types exactly once and not the
\* auto-detect entry; GET /api/meeting-types returns one item per entry.
C4_TwelveTypesListedOnce ==
    /\ Len(MEETING_TYPES) = 12
    /\ MenuIds = 0..11
    /\ MEETING_TYPES[MenuEntry(0)].v.name = "Auto-Detect"
    /\ Len(get_meeting_type_prompt(0).table) = 11
    /\ \A id \in 1..11 : Cardinality(AutoRowsOf(id)) = 1
    /\ AutoRowsOf(0) = {}
    /\ (apc = "done" /\ req.endpoint = "meeting-types") =>
          /\ response.status = 200
          /\ Len(response.meeting_types) = Len(MEETING_TYPES)
          /\ \A id \in MenuIds :
                Cardinality({i \in 1..Len(response.meeting_types) :
                                /\ response.meeting_types[i].id = id
                                /\ response.meeting_types[i].name =
                                      MEETING_TYPES[MenuEntry(id)].v.name}) = 1

\* GET /api/meeting-types has answered
C4_Witness ==
    /\ apc = "done"
    /\ req.endpoint = "meeting-types"
    /\ response.status = 200
    /\ Len(response.meeting_types) = 12

Transcribing == req.endpoint = "transcribe-summarize"

ValidId == req.meeting_type_id \in 0..11

\* c1 and c2 are the same letter, whatever their case
SameLetter(c1, c2) ==
    \/ c1 = c2
    \/ \E i \in 1..Len(UpperCase) :
          {c1, c2} = {UpperCase[i], LowerCase[i]}

\* the filename ends, in any letter case, with the extension e, and the part
\* of its last path component before that extension is no run of dots
EndsWithExtension(filename, e) ==
    LET n == Len(filename) - Len(e)
    IN  /\ n > 0
        /\ \A i \in 1..Len(e) : SameLetter(filename[n + i], e[i])
        /\ \E i \in 1..n :
              /\ filename[i] \notin {".", "/"}
              /\ \A j \in i..n : filename[j] # "/"

AllowedFile == \E e \in allowed_extensions : EndsWithExtension(req.filename, e)

\* C5: a request with meeting_type_id in 0..11 and an allowed extension,
\* whose upload is written and whose model loading, transcription,
\* diarization and summarization succeed, is answered success=true and not
\* with HTTP 500.
C5_ValidRequestSucceeds ==
    (/\ apc = "done"
     /\ Transcribing
     /\ ValidId
     /\ AllowedFile
     /\ req.upload_ok
     /\ req.services_ok) =>
        /\ response.status = 200
        /\ response.success

\* C6: a meeting_type_id below 0 or above 11 is answered with HTTP 400 and
\* for it no temporary directory is made, no upload byte written and no
\* pipeline started; the ids 0..11 are not rejected by this check.
C6_TypeIdRejectedFirst ==
    Transcribing =>
        /\ ~ValidId =>
              /\ temp_dir = "none"
              /\ ~written
              /\ pipeline_runs = 0
              /\ apc \in {"start", "done"}
              /\ apc = "done" => response.status = 400
        /\ (ValidId /\ apc = "done" /\ response.status = 400) =>
              response.detail # "meeting_type_id must be between 0 and 11"
        /\ (ValidId /\ apc # "start" /\ AllowedFile) => apc # "done" \/ temp_dir # "none"

\* an id above 11 has been rejected
C6_Witness ==
    /\ Transcribing
    /\ apc = "done"
    /\ req.meeting_type_id > 11
    /\ AllowedFile
    /\ response.status = 400

C8_NoKeyNoRequest ==
    (ret.done /\ call.fn = "summarize_with_diarization" /\ call.key = None) =>
        /\ ret.v.ret = <<"Error: NTC_API_KEY not found in environment variables">>
        /\ Len(ret.v.posts) = 0

\* the summarizer has been called without key for a summary with speakers
C8_Witness ==
    /\ ret.done
    /\ call.fn = "summarize_with_diarization"
    /\ call.key = None
    /\ Len(CallTimes) > 0
    /\ Len(ret.v.posts) = 0

\* the label is 'SPEAKER_' followed by the decimal digits of a number
IsNumberedSpeaker(label) ==
    /\ Len(label) > Len(SPEAKER_PREFIX)
    /\ SubSeq(label, 1, Len(SPEAKER_PREFIX)) = SPEAKER_PREFIX
    /\ \A i \in (Len(SPEAKER_PREFIX) + 1)..Len(label) : IsDigit(label[i])

SpeakerNumber(label) == DigitsValue(SubSeq(label, Len(SPEAKER_PREFIX) + 1, Len(label)))

\* C9: format_speaker maps 'SPEAKER_<n>' to the Thai label with the number
\* n + 1 (so distinct n give distinct labels), None and '' to 'Unknown', and
\* returns every other non-empty label unchanged.
C9_FormatSpeaker ==
    (ret.done /\ call.fn = "format_speaker") =>
        IF call.label = None \/ call.label = <<>>
        THEN ret.v = <<"U", "n", "k", "n", "o", "w", "n">>
        ELSE IF IsNumberedSpeaker(call.label)
        THEN /\ Len(ret.v) > 2
             /\ SubSeq(ret.v, 1, 2) = <<"KhonPhut", " ">>
             /\ \A i \in 3..Len(ret.v) : IsDigit(ret.v[i])
             /\ DigitsValue(SubSeq(ret.v, 3, Len(ret.v))) = SpeakerNumber(call.label) + 1
        ELSE ret.v = call.label

\* the hundredths of a second in one time unit
UnitsPerCentisecond == Resolution \div 100

\* C10: for a non-negative duration format_time renders MM:SS.cc with
\* MM = floor(seconds / 60), not wrapped at 60, SS = floor(seconds mod 60) in
\* 00..59 and cc the truncated hundredths in 00..99.
C10_FormatTime ==
    (ret.done /\ call.fn = "format_time" /\ call.seconds >= 0) =>
        LET n == Len(ret.v)
            mm == DigitsValue(SubSeq(ret.v, 1, n - 6))
            ss == DigitsValue(SubSeq(ret.v, n - 4, n - 3))
            cc == DigitsValue(SubSeq(ret.v, n - 1, n))
            shown == mm * 60 * Resolution + ss * Resolution + cc * UnitsPerCentisecond
        IN  /\ n >= 8
            /\ \A i \in (1..n) \ {n - 5, n - 2} : IsDigit(ret.v[i])
            /\ ret.v[n - 5] = ":"
            /\ ret.v[n - 2] = "."
            /\ ss \in 0..59
            /\ cc \in 0..99
            /\ shown <= call.seconds
            /\ call.seconds < shown + UnitsPerCentisecond
            /\ call.seconds >= 60 * 60 * Resolution => mm >= 60

\* a duration of more than an hour with a fraction that is no whole
\* hundredth has been rendered
C10_Witness ==
    /\ ret.done
    /\ call.fn = "format_time"
    /\ call.seconds > 60 * 60 * Resolution
    /\ call.seconds % UnitsPerCentisecond # 0
    /\ (call.seconds \div Resolution) % 60 = 59

(***************************************************************************)
(* C11: the meeting-type selection loop of the command line                *)
(***************************************************************************)
RECURSIVE StripZeros(_)
StripZeros(s) ==
    IF Len(s) > 1 /\ s[1] = "0" THEN StripZeros(Tail(s)) ELSE s

\* the text s is a decimal literal of the natural number n: an optional sign,
\* then digits, possibly zero-padded or grouped by single underscores
Denotes(s, n) ==
    LET signed == Len(s) > 0 /\ s[1] \in {"+", "-"}
        body == IF signed THEN Tail(s) ELSE s
    IN  /\ Len(body) > 0
        /\ \A i \in 1..Len(body) : body[i] = "_" \/ IsDigit(body[i])
        /\ body[1] # "_"
        /\ body[Len(body)] # "_"
        /\ \A i \in 1..(Len(body) - 1) : ~(body[i] = "_" /\ body[i + 1] = "_")
        /\ StripZeros(DropUnderscores(body)) = NatStr(n)
        /\ (signed /\ s[1] = "-") => n = 0

ValidChoice(s) == \E n \in 0..11 : Denotes(s, n)

\* C11: the selection loop is left only with an integer in 0..11 that the
\* answer spells; an answer that is no integer, or an integer outside 0..11,
\* leads back to the prompt; process() is entered, and a model loaded, only
\* after a valid id was entered and with that id; when the audio path does
\* not exist nothing is prompted and nothing is loaded.
C11_SelectionLoop ==
    /\ [](cpc \in {"selected", "process"} =>
             /\ ~cli_meeting_type_id.is_none
             /\ cli_meeting_type_id.value \in 0..11
             /\ Denotes(meeting_choice, cli_meeting_type_id.value))
    /\ []((pc # "idle" \/ model # "None") =>
             /\ cpc = "process"
             /\ type_id = cli_meeting_type_id.value
             /\ type_id \in 0..11)
    /\ [](~audio_exists => prompts = 0 /\ pc = "idle" /\ model = "None")
    /\ [][(prompts' = prompts + 1 /\ ~ValidChoice(meeting_choice'))
             => cpc' = "prompt"]_vars

\* a run that was sent back to the prompt and then entered process() and
\* loaded the transcription model
C11_Witness ==
    /\ cpc = "process"
    /\ prompts >= 2
    /\ model = "loaded"
    /\ meeting_choice = <<"1", "_", "1">>

(***************************************************************************)
(* C12: the exports when python-docx cannot be imported                    *)
(***************************************************************************)
SingleExports == {"export_transcript_to_docx", "export_summary_to_docx"}

\* C12: with DOCX_AVAILABLE false, export_transcript_to_docx and
\* export_summary_to_docx return the error message, raise nothing and save
\* no file; export_both raises nothing and returns a dict with exactly the
\* entries 'transcript' and 'summary', both that message, and no file saved.
C12_DocxUnavailable ==
    (ret.done /\ ~DOCX_AVAILABLE) =>
        /\ call.fn \in SingleExports =>
              /\ ret.v.raised = "none"
              /\ ret.v.ret = DOCX_ERROR
              /\ ~ret.v.saved
        /\ call.fn = "export_both" =>
              /\ ret.v.raised = "none"
              /\ DictKeys(ret.v.results) = {"transcript", "summary"}
              /\ \A i \in 1..Len(ret.v.results) : ret.v.results[i].v = DOCX_ERROR
              /\ ret.v.saved = {}

\* export_both has returned without python-docx for segments whose label
\* makes format_speaker raise when the document is built
C12_Witness ==
    /\ ret.done
    /\ ~DOCX_AVAILABLE
    /\ call.fn = "export_both"
    /\ Len(call.segs) = 2
    /\ call.segs[1].speaker = SPEAKER_PREFIX \o <<"x">>
    /\ Len(ret.v.results) = 2

(***************************************************************************)
(* C13, C14: order of the steps of process(), the two models               *)
(***************************************************************************)
\* the steps the order is stated for
OrderedSteps ==
    <<"load_model", "load_audio", "transcribe", "release_model", "diarize",
      "assign_speakers", "aggregate", "summarize">>

IsOrderedStep(x) == \E i \in 1..Len(OrderedSteps) : OrderedSteps[i] = x

IsPrefix(a, b) == Len(a) <= Len(b) /\ a = SubSeq(b, 1, Len(a))

Occurrences(x, sq) == Cardinality({i \in 1..Len(sq) : sq[i] = x})

\* C13: the steps a run has carried out are always an initial part of: model
\* load, audio load, transcription, release of the transcription model,
\* diarization, speaker assignment, aggregation, summarization; a run that
\* returns has carried out all of them with the summarizer called exactly
\* once, and whenever the summarizer's effects appear diarization and speaker
\* assignment are already among the steps done.
C13_StepOrder ==
    /\ [](IsPrefix(SelectSeq(steps, IsOrderedStep), OrderedSteps))
    /\ [](pc = "done" =>
             /\ SelectSeq(steps, IsOrderedStep) = OrderedSteps
             /\ Occurrences("summarize", steps) = 1)
    /\ [](pc \notin {"done", "raised"} => summary_text = <<>> /\ http_posts = <<>>)
    /\ [][(summary_text' # summary_text \/ http_posts' # http_posts) =>
             /\ Occurrences("diarize", steps) = 1
             /\ Occurrences("assign_speakers", steps) = 1]_vars

\* a run over two segments has returned after posting one request
C13_Witness ==
    /\ pc = "done"
    /\ Len(result) = 2
    /\ Len(http_posts) = 1
    /\ Len(steps) = 10

\* C14: the transcription model and the diarization model are never loaded
\* together: the diarization pipeline is constructed only when self.model is
\* None, and the summarizer runs only when both models are released.
C14_NeverBothLoaded ==
    /\ [](~(model = "loaded" /\ diarize_model = "loaded"))
    /\ [][diarize_model' # diarize_model /\ diarize_model' = "loaded" =>
             model = "None"]_vars
    /\ [][Occurrences("summarize", steps') > Occurrences("summarize", steps) =>
             model = "None" /\ diarize_model = "None"]_vars

\* the diarization model is loaded after a transcription of two segments
C14_Witness ==
    /\ diarize_model = "loaded"
    /\ model = "None"
    /\ Len(result) = 2
    /\ Occurrences("release_model", steps) = 1

(***************************************************************************)
(* C15: the temporary directory of POST /api/transcribe-summarize          *)
(***************************************************************************)
\* C15: a request that made its temporary directory finishes only with that
\* directory removed and no uploaded file left in it, whatever the path:
\* response built, exception of the pipeline turned into HTTP 500, failure
\* while the upload is written.
C15_TempDirRemoved ==
    (apc = "done" /\ req.endpoint = "transcribe-summarize" /\ temp_dir # "none") =>
        /\ temp_dir = "removed"
        /\ temp_file # "in_temp_dir"
        /\ response.status \in {200, 500}

\* the upload was written into the directory, the pipeline call raised, and
\* the request finished with HTTP 500 and the directory and file removed
C15_Witness ==
    /\ apc = "done"
    /\ req.endpoint = "transcribe-summarize"
    /\ written
    /\ temp_file = "removed"
    /\ temp_dir = "removed"
    /\ response.status = 500

(***************************************************************************)
(* C16: the temporary directory of the export endpoints                    *)
(***************************************************************************)
Exporting == req.endpoint \in ExportEndpoints

\* C16: an export request finishes only with its temporary directory
\* removed; when the export raised, the directory is removed by the time the
\* HTTP 500 is raised; when the file is served, the directory is removed only
\* after the response was sent.
C16_ExportTempDirRemoved ==
    Exporting =>
        /\ apc = "done" => temp_dir = "removed"
        /\ response.status = 500 => temp_dir = "removed"
        /\ (temp_dir = "removed" /\ response.status = 200) => response.sent

\* the body has a first choice whose message has a content
HasContent(body) ==
    /\ body.t = "dict"
    /\ DictHas(body.items, "choices")
    /\ LET choices == DictGet(body.items, "choices", JNull) IN
       /\ choices.t = "list"
       /\ Len(choices.items) > 0
       /\ choices.items[1].t = "dict"
       /\ DictHas(choices.items[1].items, "message")
       /\ LET message == DictGet(choices.items[1].items, "message", JNull) IN
          /\ message.t = "dict"
          /\ DictHas(message.items, "content")

\* C17: with a key set summarize_with_diarization never raises: a transport or
\* HTTP failure is returned as 'Error calling NTC API: ...', an answer whose
\* body has no choices[0].message.content as 'Error parsing response: ...',
\* and the content is returned only for a body that has one.
C17_FailuresAreReturnValues ==
    (ret.done /\ call.fn = "summarize_with_diarization" /\ call.key # None
         /\ Len(call.key) > 0) =>
        /\ ret.v.raised = "none"
        /\ call.outcome.transport = "RequestException" =>
               ret.v.ret[1] = "Error calling NTC API: "
        /\ (call.outcome.transport = "ok" /\ ~HasContent(call.outcome.body)) =>
               ret.v.ret[1] = "Error parsing response: "
        /\ (call.outcome.transport = "ok" /\ HasContent(call.outcome.body)) =>
               ret.v.ret = PyValue(ContentOf(call.outcome.body).v)

\* the segments of segs that start at b, in the order of segs
StartingAt(segs, b) == SelectSeq(segs, LAMBDA seg : seg.start = b)

\* C18: once process() has aggregated, its segments are those of the
\* transcription in non-decreasing order of start, segments of equal start in
\* the order the transcription had them, and the transcript has one
\* '[speaker]: text' line per segment, in the order of the segments.
C18_SegmentsOrdered ==
    Occurrences("aggregate", steps) = 1 =>
        /\ Len(segments) = Len(result)
        /\ \A i, j \in 1..Len(segments) :
               i < j => segments[i].start <= segments[j].start
        /\ \A b \in Starts : StartingAt(segments, b) = StartingAt(result, b)
        /\ Len(transcript_lines) = Len(segments)
        /\ \A i \in 1..Len(segments) :
               transcript_lines[i] =
                   [speaker |-> format_speaker(segments[i].speaker),
                    text |-> Strip(segments[i].text)]

\* a run has returned whose transcription had a later segment first
C18_Witness ==
    /\ pc = "done"
    /\ Len(result) = 2
    /\ result[1].start > result[2].start
    /\ segments = <<result[2], result[1]>>
    /\ Len(transcript_lines) = 2

\* the place of speaker k among the items of the speaking_time of the call
PlaceOf(k) == CHOOSE i \in 1..Len(CallTimes) : CallTimes[i].k = k

\* C19: the speaker lines posted to the LLM name every speaker of
\* speaking_time exactly once, by non-increasing speaking time, speakers of
\* equal time in the order of the dict, and the number of participants in the
\* system prompt is the number of lines.
C19_SpeakerInfoBlock ==
    (ret.done /\ call.fn = "summarize_with_diarization" /\ ret.v.posts # <<>>) =>
        LET info == ret.v.posts[1].speaker_info IN
        /\ Len(info) = Len(CallTimes)
        /\ \A n \in 1..Len(CallTimes) :
               Cardinality({i \in 1..Len(info) : info[i].speaker = CallTimes[n].k}) = 1
        /\ \A i, j \in 1..Len(info) :
               i < j =>
                   \/ DictGet(CallTimes, info[i].speaker, 0)
                          > DictGet(CallTimes, info[j].speaker, 0)
                   \/ /\ DictGet(CallTimes, info[i].speaker, 0)
                             = DictGet(CallTimes, info[j].speaker, 0)
                      /\ PlaceOf(info[i].speaker) < PlaceOf(info[j].speaker)
        /\ ret.v.posts[1].num_speakers = Len(info)

\* a request has been posted for two speakers of equal, positive speaking time
C19_Witness ==
    /\ ret.done
    /\ call.fn = "summarize_with_diarization"
    /\ Len(ret.v.posts) = 1
    /\ Len(CallTimes) = 2
    /\ CallTimes[1].v = CallTimes[2].v
    /\ CallTimes[1].v > 0
    /\ Len(ret.v.posts[1].speaker_info) = 2
    /\ ret.v.posts[1].speaker_info[1].speaker = CallTimes[1].k

\* C20: where python-docx is available, export_summary_to_docx writes for a
\* speaker_summary with speakers a participant section with exactly one
\* leader, a speaker of greatest speaking time, whether or not the share of
\* that speaker is above 25%; without speaker_summary or without speakers it
\* writes no participant section.
C20_OneLeader ==
    (ret.done /\ call.fn = "export_summary_to_docx" /\ DOCX_AVAILABLE) =>
        /\ ret.v.raised = "none"
        /\ (~call.summary.is_none /\ Len(CallTimes) > 0) =>
               /\ ret.v.section.written
               /\ Len(ret.v.section.leaders) = 1
               /\ DictHas(CallTimes, ret.v.section.leaders[1])
               /\ \A n \in 1..Len(CallTimes) :
                      DictGet(CallTimes, ret.v.section.leaders[1], 0) >= CallTimes[n].v
        /\ (call.summary.is_none \/ Len(CallTimes) = 0) => ~ret.v.section.written

\* a summary of five speakers of 20% each has been exported: the leader is
\* the first of them although no share is above 25%
C20_Witness ==
    /\ ret.done
    /\ call.fn = "export_summary_to_docx"
    /\ DOCX_AVAILABLE
    /\ Len(CallTimes) = 5
    /\ \A n \in 1..5 : CallTimes[n].v = CallTimes[1].v /\ CallTimes[n].v > 0
    /\ ret.v.section.written
    /\ ret.v.section.leaders = <<CallTimes[1].k>>

(***************************************************************************)
(* C21: the combined-text section of export_transcript_to_docx             *)
(***************************************************************************)
\* the places in srt where the shown speaker differs from the one before
RunStarts(srt) ==
    {i \in 1..Len(srt) : i = 1 \/ ShownSpeaker(srt[i]) # ShownSpeaker(srt[i - 1])}

\* the place where the k-th run of srt starts, and where it ends
RunStart(srt, k) ==
    CHOOSE i \in RunStarts(srt) : Cardinality({j \in RunStarts(srt) : j <= i}) = k

RunEnd(srt, k) ==
    IF k = Cardinality(RunStarts(srt)) THEN Len(srt) ELSE RunStart(srt, k + 1) - 1

\* C21: in a document export_transcript_to_docx has built, the combined text
\* has one line per maximal run of segments, taken by start, that show the
\* same speaker: the line carries that speaker and the stripped texts of the
\* run joined in order, and neighbouring lines carry different speakers.
C21_CombinedText ==
    (ret.done /\ call.fn = "export_transcript_to_docx" /\ ret.v.saved) =>
        LET lines == ret.v.combined
            srt == SortedByStart(call.segs)
        IN  /\ Len(lines) = Cardinality(RunStarts(srt))
            /\ \A k \in 1..Len(lines) :
                   LET b == RunStart(srt, k)
                       e == RunEnd(srt, k)
                   IN  /\ lines[k].speaker = ShownSpeaker(srt[b])
                       /\ lines[k].text =
                              JoinSpace([m \in 1..(e - b + 1) |->
                                            Strip(srt[b + m - 1].text)])
            /\ \A k \in 1..(Len(lines) - 1) : lines[k].speaker # lines[k + 1].speaker

\* a document has been built from two segments of one speaker given later
\* segment first: one line, the earlier text first
C21_Witness ==
    /\ ret.done
    /\ call.fn = "export_transcript_to_docx"
    /\ ret.v.saved
    /\ Len(call.segs) = 2
    /\ call.segs[1].start > call.segs[2].start
    /\ call.segs[1].text # call.segs[2].text
    /\ Len(ret.v.combined) = 1
    /\ ret.v.combined[1].text =
           Strip(call.segs[2].text) \o <<" ">> \o Strip(call.segs[1].text)

(***************************************************************************)
(* C22: the two sections of the system prompt                              *)
(***************************************************************************)
\* C22: in every request summarize_with_diarization posts, the instruction
\* section and the Output-Format section are about the same meeting type: for
\* the auto-detect instruction the Output-Format has the placeholder type and
\* the structure of type 0, for the instruction of a type it has the Thai
\* name and the structure of that type, ids without entry included.
C22_SameMeetingType ==
    (ret.done /\ call.fn = "summarize_with_diarization" /\ ret.v.posts # <<>>) =>
        LET post == ret.v.posts[1] IN
        /\ post.instruction.kind = "auto" =>
               /\ post.out_type = "praphet"
               /\ post.out_structure = DictGet(MEETING_TYPES, 0, NoInfo).structure
        /\ post.instruction.kind = "specific" =>
               /\ post.out_type = post.instruction.thai
               /\ post.out_structure = post.instruction.structure

(***************************************************************************)
(* C23: key sets and totals of process()'s speaker_summary                 *)
(***************************************************************************)
\* the sum of the values of a dict
ValueTotal(d) == SumOver(1..Len(d), [i \in 1..Len(d) |-> d[i].v])

\* C23: speaking_time and word_count always have the same keys, which are the
\* speaker labels of the transcript lines, and once process() has aggregated
\* the speaking times add up to the total duration of the segments and the
\* word counts to their total number of words.
C23_KeySetsAndTotals ==
    /\ DictKeys(speakers_time) = DictKeys(speakers_words)
    /\ DictKeys(speakers_time) =
           {transcript_lines[i].speaker : i \in 1..Len(transcript_lines)}
    /\ Occurrences("aggregate", steps) = 1 =>
           /\ ValueTotal(speakers_time) =
                  SumOver(1..Len(result),
                          [i \in 1..Len(result) |-> result[i].end - result[i].start])
           /\ ValueTotal(speakers_words) =
                  SumOver(1..Len(result),
                          [i \in 1..Len(result) |-> TokenCount(result[i].text)])

\* a run over two segments of two speakers, of different durations and word
\* counts, has aggregated
C23_Witness ==
    /\ Occurrences("aggregate", steps) = 1
    /\ Len(result) = 2
    /\ Cardinality(DictKeys(speakers_time)) = 2
    /\ result[1].end - result[1].start # result[2].end - result[2].start
    /\ ValueTotal(speakers_time) = 3
    /\ ValueTotal(speakers_words) = 3

(***************************************************************************)
(* C24: TM.py and app/services/pipeline.py aggregate alike                 *)
(***************************************************************************)
\* C24: once process() of app/services/pipeline.py has aggregated a diarized
\* result, its segments, speaking_time, word_count and transcript lines are
\* those the aggregation of TM.py gives for the same result.
C24_SameAggregation ==
    Occurrences("aggregate", steps) = 1 =>
        LET legacy == TM_aggregation(result)
        IN  /\ legacy.segments = segments
            /\ legacy.speaking_time = speakers_time
            /\ legacy.word_count = speakers_words
            /\ legacy.transcript_lines = transcript_lines

\* two segments given later segment first, of two speakers, one without
\* label and one whose text has blanks around it, have been aggregated
C24_Witness ==
    /\ Occurrences("aggregate", steps) = 1
    /\ Len(result) = 2
    /\ result[1].start > result[2].start
    /\ result[1].speaker = None
    /\ result[2].speaker = SPEAKER_PREFIX \o <<"0", "1">>
    /\ result[2].text = <<" ", "a", " ">>
    /\ TM_aggregation(result).transcript_lines = transcript_lines
    /\ Len(transcript_lines) = 2

====
